---- MODULE Spec2Model ----
(***************************************************************************)
(* Model of the ReconciliationSystem batch loader (db/batch.go), of the    *)
(* ingestion (controllers/ingest_controller.go, utils/parser.go, ingest/), *)
(* of the reconciliation pass (controllers/reconcile_controller.go) and of *)
(* main.                                                                   *)
(*                                                                         *)
(* Spec        : one call of BatchInserter.BatchInsertRecords,             *)
(*               PreparedBatchInserter.BatchInsertRecords or               *)
(*               StreamingBatchInserter.StreamInsertRecords, with its      *)
(*               goroutines, channels, WaitGroup and store transactions.   *)
(* SpecBatches : createBatches applied to every bounded input.             *)
(* SpecRecon   : RunReconciliation on a populated records table, every     *)
(*               store call of which may fail.                             *)
(* SpecIngest  : IngestAllFiles (ClearExistingData, ParseAndStorePayments, *)
(*               ParseAndStoreSettlements) on bounded sources.             *)
(* SpecPipeline: main run repeatedly on one store: ingestion, then         *)
(*               RunReconciliation, then GenerateCSVReport.                *)
(* SpecAggregate: AggregateSettlementsByOrderID applied to every bounded   *)
(*               sequence of line items.                                   *)
(* SpecAdhocFair: one call of BatchInserter.BatchInsertRecords under weak  *)
(*               fairness of its steps.                                    *)
(***************************************************************************)
EXTENDS Integers, Sequences, FiniteSets, Bags, TLC

\* ---------------------------------------------------------------- bounds
MaxLen == 3          \* longest record sequence handed to a loader
MaxBatchSize == 2    \* largest batchSize argument (0 chooses the default)
MaxWorkers == 2      \* largest workers argument (0 chooses the default)
MaxPayments == 2     \* most payments rows of table records
MaxRuns == 2         \* most calls of RunReconciliation / IngestAllFiles / main
MaxLines == 2        \* most lines of a source after its header or leading lines
MaxFaults == 2       \* most failing store, file and connection calls in one behaviour
MaxItems == 3        \* longest item sequence handed to AggregateSettlementsByOrderID

\* The order keys and the totals (in hundredths) the rows are drawn from.
Orders == {"ORD001", "ORD002"}
PaymentTotals == {10000, 15000}
SettlementTotals == {10000, 14500}

\* The record payloads the inputs are drawn from (two equal payloads make a
\* multiset with a repeated element).
RecordVals == {"a", "b"}

\* ------------------------------------------------------ program constants
DefaultBatchSize == 1000
DefaultWorkers == 4

VARIABLES
    variant,     \* "adhoc" (BatchInserter), "prepared" (PreparedBatchInserter), "stream"
    records,     \* the []BatchRecord argument / the records sent on recordChan
    batchSize,   \* inserter field batchSize
    workers,     \* inserter field workers
    mainPc,      \* position of the calling goroutine
    result,      \* NotReturned until the call returns, then Nil or an error value
    batches,     \* the batches handed to the workers / to insertBatch, in creation order
    batchChan,   \* buffered channel of batches (indices into batches), closed once filled
    errorChan,   \* buffered channel of errors, capacity workers
    wg,          \* sync.WaitGroup counter
    spawned,     \* number of worker goroutines started (loop variable i)
    wpc,         \* position of each goroutine that runs insertBatch (0 is the caller)
    cur,         \* the batch each goroutine holds (index into batches, 0 for none)
    pos,         \* prepared insertBatch: index of the next record of the batch
    txOpen,      \* whether the goroutine's transaction is open
    txRows,      \* rows written inside the goroutine's open transaction
    openTxns,    \* number of transactions begun on the store and not yet ended
    store,       \* committed rows of table records, in insertion order
    recordChan,  \* stream: records not yet received
    batch,       \* stream: the reused batch buffer
    resume,      \* stream: where insertBatch was called from ("loop" or "final")
    takenBy,     \* history: the goroutines that received each batch
    failed,      \* history: the batches one of whose store calls failed
    ret,         \* history: what insertBatch returned for each batch
    reported,    \* history: the errors sent to errorChan, in order
    dbRecords,   \* table records as the controllers see it, in id order
    reconciled,  \* table reconciled_records (a bag of rows; ids left out)
    rPc,         \* position inside RunReconciliation
    rResult,     \* what RunReconciliation returned
    rCursor,     \* rows of the join not yet fetched
    rRow,        \* the row the loop has scanned
    rRuns,       \* number of calls of RunReconciliation so far
    rFailed,     \* history: whether a store call of this run has failed
    rPrior,      \* history: reconciled_records as it was when the run was called
    mPc,         \* position inside main
    iPc,         \* position inside IngestAllFiles and the functions it calls
    iRuns,       \* number of calls of IngestAllFiles so far
    paymentFile,     \* the payment source (data/payment_data.csv)
    settlementFile,  \* the settlement source (data/settlement_data.txt)
    pRead,       \* number of reader.Read() calls made on the payment source
    sRead,       \* number of scanner.Scan() calls made on the settlement source
    headers,     \* local headers: its number of fields (0 while not found)
    scanI,       \* loop variable i of the header scan
    settlements, \* local settlements: the line items accepted so far
    orderTotals, \* local orderTotals: the map entries not yet ranged over
    recordsSeq,  \* next value of sequence records_id_seq
    cResult,     \* what ClearExistingData returned
    pResult,     \* what ParseAndStorePayments returned
    sResult,     \* what ParseAndStoreSettlements returned
    iResult,     \* what IngestAllFiles returned
    report,      \* output/reconciliation_report.csv: NoReport or its data rows
    ingested,    \* history: the rows this call of IngestAllFiles has inserted
    iFailed,     \* history: the phases of this run in which a delete or insert failed
    iPrior,      \* history: the rows of records when this call of IngestAllFiles began
    faults       \* number of store, file and connection failures so far

vars == <<variant, records, batchSize, workers, mainPc, result, batches, batchChan,
          errorChan, wg, spawned, wpc, cur, pos, txOpen, txRows, openTxns, store, recordChan,
          batch, resume, takenBy, failed, ret, reported,
          dbRecords, reconciled, rPc, rResult, rCursor, rRow, rRuns, rFailed, rPrior,
          mPc, iPc, iRuns, paymentFile, settlementFile, pRead, sRead, headers, scanI,
          settlements, orderTotals, recordsSeq, cResult, pResult, sResult, iResult,
          report, ingested, iFailed, iPrior, faults>>

reconVars == <<dbRecords, reconciled, rPc, rResult, rCursor, rRow, rRuns, rFailed, rPrior>>

\* The variables of main and of the ingestion, apart from the two tables.
pipeVars == <<mPc, iPc, iRuns, paymentFile, settlementFile, pRead, sRead, headers, scanI,
              settlements, orderTotals, recordsSeq, cResult, pResult, sResult, iResult,
              report, ingested, iFailed, iPrior>>

\* ---------------------------------------------------------------- helpers
RECURSIVE SeqsUpTo(_, _)
SeqsUpTo(S, n) ==
    IF n = 0 THEN {<<>>}
    ELSE LET shorter == SeqsUpTo(S, n - 1)
         IN  shorter \cup {Append(s, x) : s \in {t \in shorter : Len(t) = n - 1}, x \in S}

\* The multiset of the elements of a sequence.
BagOfSeq(s) == [x \in {s[i] : i \in DOMAIN s} |-> Cardinality({i \in DOMAIN s : s[i] = x})]

RECURSIVE Flatten(_)
Flatten(ss) == IF ss = <<>> THEN <<>> ELSE Head(ss) \o Flatten(Tail(ss))

\* A BatchRecord of the input: its payload and its position in the input.
Record(i, v) == [idx |-> i, val |-> v]

\* The Source and OrderID fields of a payload. BatchRecord puts no constraint on
\* them and the loaders copy them to the row unread: payload "a" is a payments
\* record of order ORD001, payload "b" has another source tag and no order key.
BatchRecordFields(v) ==
    IF v = "a" THEN [Source |-> "payments", OrderID |-> "ORD001"]
    ELSE [Source |-> "refunds", OrderID |-> ""]
Tagged(vals) == [i \in DOMAIN vals |-> Record(i, vals[i])]

\* Return values: not returned yet, a nil error, the error of batch b.
NotReturned == <<"none", 0>>
Nil == <<"nil", 0>>
Err(b) == <<"err", b>>

\* ------------------------------------------------------------ constructors
NewBatchSize(arg) == IF arg <= 0 THEN DefaultBatchSize ELSE arg
NewWorkers(arg) == IF arg <= 0 THEN DefaultWorkers ELSE arg

\* ----------------------------------------------------------- createBatches
RECURSIVE BI_createBatchesFrom(_, _, _)
BI_createBatchesFrom(recs, size, i) ==
    IF i < Len(recs)
    THEN LET end == IF i + size > Len(recs) THEN Len(recs) ELSE i + size
         IN  <<SubSeq(recs, i + 1, end)>> \o BI_createBatchesFrom(recs, size, i + size)
    ELSE <<>>

\* Mutant: the loop stops at the last full batch (i + batchSize <= len(records)).
BI_createBatches_DropTail(recs, size) ==
    BI_createBatchesFrom(SubSeq(recs, 1, (Len(recs) \div size) * size), size, 0)

\* Mutant: the batches are returned last first.
BI_createBatches_LastFirst(recs, size) ==
    LET bs == BI_createBatchesFrom(recs, size, 0)
    IN  [i \in 1 .. Len(bs) |-> bs[Len(bs) + 1 - i]]

BI_createBatches(recs, size) == BI_createBatchesFrom(recs, size, 0)

RECURSIVE PBI_createBatchesFrom(_, _, _)
PBI_createBatchesFrom(recs, size, i) ==
    IF i < Len(recs)
    THEN LET end == IF i + size > Len(recs) THEN Len(recs) ELSE i + size
         IN  <<SubSeq(recs, i + 1, end)>> \o PBI_createBatchesFrom(recs, size, i + size)
    ELSE <<>>

PBI_createBatches(recs, size) == PBI_createBatchesFrom(recs, size, 0)

createBatches(v, recs, size) ==
    IF v = "adhoc" THEN BI_createBatches(recs, size) ELSE PBI_createBatches(recs, size)

\* ------------------------------------------------------------------ store
\* The store is a transactional relational engine: rows written inside an open
\* transaction become rows of the table at commit and are discarded at rollback;
\* a single INSERT statement either adds all of its rows or none.
Goroutines == 0 .. workers
Workers == 1 .. workers

\* tx.Commit(): the rows of the transaction reach the table.
StoreAfterCommit(st, rows) == st \o rows

\* Mutant: the statement is executed outside the transaction (pbi.stmt.Exec).
PBI_StoreAfterExec_NoTx(st, rec) == Append(st, rec)

\* txStmt.Exec inside the transaction: the table itself is not written.
PBI_StoreAfterExec(st, rec) == st

\* txStmt.Exec inside the transaction: the row is pending in the transaction.
PBI_RowsAfterExec(rows, rec) == Append(rows, rec)

\* Mutant: a transaction that was committed or rolled back stays open on the store.
TxnsAfterEnd_Kept(n) == n

\* tx.Commit() and the deferred tx.Rollback() end the transaction of this call.
TxnsAfterEnd(n) == n - 1

\* Mutant: no deferred rollback.
PBI_OpenAfterReturn_NoDefer(open) == open

\* defer tx.Rollback(): on return no transaction of this call stays open.
PBI_OpenAfterReturn(open) == FALSE

\* bi.db.Exec of the multi-row INSERT: all rows of the batch are added.
BI_StoreAfterExec(st, b) == st \o b

\* ------------------------------------------------------------------- Init
\* A call of the store (or of the file system) succeeds or fails; at most
\* MaxFaults calls fail in one behaviour.
Outcomes == IF faults < MaxFaults THEN BOOLEAN ELSE {TRUE}
FaultsAfter(ok) == IF ok THEN faults ELSE faults + 1

\* A source file: whether it can be opened, the number of leading lines whose
\* first field does not contain "date/time", and the lines after them.
File(junk, rest) == [exists |-> TRUE, junk |-> junk, rest |-> rest]
NoFile == [exists |-> FALSE, junk |-> 0, rest |-> <<>>]

\* The report file: not created, or created with the data rows written to it.
NoReport == [written |-> FALSE, rows |-> EmptyBag]

InitReconIdle ==
    /\ dbRecords = <<>>
    /\ reconciled = EmptyBag
    /\ rPc = "idle"
    /\ rResult = NotReturned
    /\ rCursor = {}
    /\ rRow = <<>>
    /\ rRuns = 0
    /\ rFailed = FALSE
    /\ rPrior = EmptyBag

\* The process-local state of main and IngestAllFiles before anything is called.
InitPipeLocals ==
    /\ mPc = "idle"
    /\ iPc = "idle"
    /\ iRuns = 0
    /\ pRead = 0
    /\ sRead = 0
    /\ headers = 0
    /\ scanI = 0
    /\ settlements = <<>>
    /\ orderTotals = [k \in {} |-> 0]
    /\ recordsSeq = 1
    /\ cResult = NotReturned
    /\ pResult = NotReturned
    /\ sResult = NotReturned
    /\ iResult = NotReturned
    /\ report = NoReport
    /\ ingested = <<>>
    /\ iFailed = {}
    /\ iPrior = EmptyBag

InitPipeIdle ==
    /\ InitPipeLocals
    /\ faults = 0
    /\ paymentFile = NoFile
    /\ settlementFile = NoFile

InitHistory ==
    /\ takenBy = <<>>
    /\ failed = {}
    /\ ret = <<>>
    /\ reported = <<>>

\* The loaders never read a record's fields, so the concurrent model draws its
\* inputs by length only; the payloads alternate and a record is told apart by
\* its position.
LoaderInputs == {Tagged([i \in 1 .. n |-> IF i % 2 = 1 THEN "a" ELSE "b"]) : n \in 0 .. MaxLen}

Init ==
    /\ variant \in {"adhoc", "prepared", "stream"}
    /\ records \in LoaderInputs
    /\ batchSize \in {NewBatchSize(a) : a \in 0 .. MaxBatchSize}
    /\ workers \in {NewWorkers(a) : a \in 0 .. MaxWorkers}
    /\ mainPc = IF variant = "stream" THEN "loop" ELSE "call"
    /\ result = NotReturned
    /\ batches = <<>>
    /\ batchChan = <<>>
    /\ errorChan = <<>>
    /\ wg = 0
    /\ spawned = 0
    /\ wpc = [w \in Workers |-> "idle"]
    /\ cur = [g \in Goroutines |-> 0]
    /\ pos = [g \in Goroutines |-> 0]
    /\ txOpen = [g \in Goroutines |-> FALSE]
    /\ txRows = [g \in Goroutines |-> <<>>]
    /\ openTxns = 0
    /\ store = <<>>
    /\ recordChan = IF variant = "stream" THEN records ELSE <<>>
    /\ batch = <<>>
    /\ resume = "loop"
    /\ InitHistory
    /\ InitReconIdle
    /\ InitPipeIdle

\* -------------------------------------------------- BatchInsertRecords
streamVars == <<recordChan, batch, resume>>
loaderVars == <<variant, records, batchSize, workers, mainPc, result, batches, batchChan,
                errorChan, wg, spawned, wpc, cur, pos, txOpen, txRows, openTxns, store,
                recordChan, batch, resume, takenBy, failed, ret, reported>>
configVars == <<variant, records, batchSize, workers>>
txVars == <<txOpen, txRows, pos, openTxns>>

\* len(records) == 0 returns nil; otherwise the batches are created, sent to
\* batchChan and the channel is closed, all before any worker exists.
BatchInsertRecords_CallOf(v) ==
    /\ variant \in {"adhoc", "prepared"}
    /\ mainPc = "call"
    /\ IF Len(records) = 0
       THEN /\ result' = Nil
            /\ mainPc' = "done"
            /\ UNCHANGED <<batches, batchChan, takenBy, ret>>
       ELSE /\ batches' = createBatches(v, records, batchSize)
            /\ batchChan' = [i \in 1 .. Len(batches') |-> i]
            /\ takenBy' = [i \in 1 .. Len(batches') |-> <<>>]
            /\ ret' = [i \in 1 .. Len(batches') |-> NotReturned]
            /\ mainPc' = "spawn"
            /\ UNCHANGED result
    /\ UNCHANGED <<configVars, reconVars, pipeVars, faults, errorChan, wg, spawned, wpc, cur, txVars, store,
                   streamVars, failed, reported>>

BatchInsertRecords_Call == BatchInsertRecords_CallOf(variant)

\* One iteration of the loop that starts the workers: wg.Add(1); go worker(...).
StartWorker ==
    /\ mainPc = "spawn"
    /\ IF spawned < workers
       THEN /\ wg' = wg + 1
            /\ spawned' = spawned + 1
            /\ wpc' = [wpc EXCEPT ![spawned + 1] = "recv"]
            /\ UNCHANGED mainPc
       ELSE /\ mainPc' = "wait"
            /\ UNCHANGED <<wg, spawned, wpc>>
    /\ UNCHANGED <<configVars, reconVars, pipeVars, faults, result, batches, batchChan, errorChan, cur, txVars,
                   store, streamVars, takenBy, failed, ret, reported>>

\* Mutant: the caller does not wait for the workers.
WaitReturns_Early(counter) == TRUE

\* wg.Wait() returns when the counter is zero; close(errorChan) follows.
WaitReturns(counter) == counter = 0

Wait ==
    /\ mainPc = "wait"
    /\ WaitReturns(wg)
    /\ mainPc' = "read"
    /\ UNCHANGED <<configVars, reconVars, pipeVars, faults, result, batches, batchChan, errorChan, wg, spawned, wpc,
                   cur, txVars, store, streamVars, takenBy, failed, ret, reported>>

\* Mutant: the caller keeps the last error of the channel instead of the first.
ReceivedError_Last(ch) == ch[Len(ch)]

\* for err := range errorChan { if err != nil { return err } }; return nil
ReceivedError(ch) == Head(ch)

CheckErrors ==
    /\ mainPc = "read"
    /\ IF errorChan # <<>>
       THEN /\ result' = ReceivedError(errorChan)
            /\ errorChan' = Tail(errorChan)
       ELSE /\ result' = Nil
            /\ UNCHANGED errorChan
    /\ mainPc' = "done"
    /\ UNCHANGED <<configVars, reconVars, pipeVars, faults, batches, batchChan, wg, spawned, wpc, cur, txVars, store,
                   streamVars, takenBy, failed, ret, reported>>

\* ----------------------------------------------------------------- worker
\* Mutant: a receive leaves the batch in the queue (workers iterate a shared slice).
ChanAfterReceive_Keep(ch) == ch

\* for batch := range batchChan: receive the next batch, or leave the loop when
\* the closed channel is empty (the deferred wg.Done() runs).
ChanAfterReceive(ch) == Tail(ch)

WorkerReceive(w) ==
    /\ wpc[w] = "recv"
    /\ IF batchChan # <<>>
       THEN /\ cur' = [cur EXCEPT ![w] = Head(batchChan)]
            /\ batchChan' = ChanAfterReceive(batchChan)
            /\ takenBy' = [takenBy EXCEPT ![Head(batchChan)] = Append(@, w)]
            /\ wpc' = [wpc EXCEPT ![w] = "insert"]
            /\ UNCHANGED wg
       ELSE /\ wpc' = [wpc EXCEPT ![w] = "done"]
            /\ wg' = wg - 1
            /\ UNCHANGED <<cur, batchChan, takenBy>>
    /\ UNCHANGED <<configVars, reconVars, pipeVars, faults, mainPc, result, batches, errorChan, spawned, txVars,
                   store, streamVars, failed, ret, reported>>

\* Mutant: errorChan is unbuffered.
ErrorChanCap_Unbuffered(w) == 0

\* errorChan := make(chan error, bi.workers)
ErrorChanCap(w) == w

\* errorChan <- err; return (the deferred wg.Done() runs). The send blocks while
\* the channel is full.
WorkerSendError(w) ==
    /\ wpc[w] = "send"
    /\ Len(errorChan) < ErrorChanCap(workers)
    /\ errorChan' = Append(errorChan, Err(cur[w]))
    /\ reported' = Append(reported, Err(cur[w]))
    /\ wpc' = [wpc EXCEPT ![w] = "done"]
    /\ wg' = wg - 1
    /\ UNCHANGED <<configVars, reconVars, pipeVars, faults, mainPc, result, batches, batchChan, spawned, cur, txVars,
                   store, streamVars, takenBy, failed, ret>>

\* Mutant: a worker whose insertBatch failed goes on to the next batch.
PcAfterInsertError_Continue(b) == "recv"

\* if err := bi.insertBatch(batch); err != nil { errorChan <- err; return }
PcAfterInsertError(b) == "send"

\* BatchInserter.insertBatch: one multi-row INSERT, which succeeds or fails whole.
BI_insertBatch(w) ==
    /\ variant = "adhoc"
    /\ wpc[w] = "insert"
    /\ \E ok \in BOOLEAN :
         IF Len(batches[cur[w]]) = 0 \/ ok
         THEN /\ store' = BI_StoreAfterExec(store, batches[cur[w]])
              /\ ret' = [ret EXCEPT ![cur[w]] = Nil]
              /\ wpc' = [wpc EXCEPT ![w] = "recv"]
              /\ UNCHANGED failed
         ELSE /\ failed' = failed \cup {cur[w]}
              /\ ret' = [ret EXCEPT ![cur[w]] = Err(cur[w])]
              /\ wpc' = [wpc EXCEPT ![w] = PcAfterInsertError(cur[w])]
              /\ UNCHANGED store
    /\ UNCHANGED <<configVars, reconVars, pipeVars, faults, mainPc, result, batches, batchChan, errorChan, wg,
                   spawned, cur, txVars, streamVars, takenBy, reported>>

\* PreparedBatchInserter.insertBatch, first step: the empty-batch return and
\* pbi.db.Beginx(), which may fail.
PBI_Begin(w) ==
    /\ variant = "prepared"
    /\ wpc[w] = "insert"
    /\ IF Len(batches[cur[w]]) = 0
       THEN /\ ret' = [ret EXCEPT ![cur[w]] = Nil]
            /\ wpc' = [wpc EXCEPT ![w] = "recv"]
            /\ UNCHANGED <<txVars, failed>>
       ELSE \E ok \in BOOLEAN :
              IF ok
              THEN /\ txOpen' = [txOpen EXCEPT ![w] = TRUE]
                   /\ openTxns' = openTxns + 1
                   /\ txRows' = [txRows EXCEPT ![w] = <<>>]
                   /\ pos' = [pos EXCEPT ![w] = 1]
                   /\ wpc' = [wpc EXCEPT ![w] = "intx"]
                   /\ UNCHANGED <<failed, ret>>
              ELSE /\ failed' = failed \cup {cur[w]}
                   /\ ret' = [ret EXCEPT ![cur[w]] = Err(cur[w])]
                   /\ wpc' = [wpc EXCEPT ![w] = PcAfterInsertError(cur[w])]
                   /\ UNCHANGED txVars
    /\ UNCHANGED <<configVars, reconVars, pipeVars, faults, mainPc, result, batches, batchChan, errorChan, wg,
                   spawned, cur, store, streamVars, takenBy, reported>>

\* One iteration of the per-record loop: txStmt.Exec(record...), returning the
\* error (and so rolling back through the deferred tx.Rollback()) when it fails.
PBI_Exec(w) ==
    /\ variant = "prepared"
    /\ wpc[w] = "intx"
    /\ pos[w] <= Len(batches[cur[w]])
    /\ \E ok \in BOOLEAN :
         IF ok
         THEN /\ txRows' = [txRows EXCEPT ![w] = PBI_RowsAfterExec(@, batches[cur[w]][pos[w]])]
              /\ store' = PBI_StoreAfterExec(store, batches[cur[w]][pos[w]])
              /\ pos' = [pos EXCEPT ![w] = @ + 1]
              /\ UNCHANGED <<txOpen, openTxns, wpc, failed, ret>>
         ELSE /\ txOpen' = [txOpen EXCEPT ![w] = PBI_OpenAfterReturn(@)]
              /\ openTxns' = TxnsAfterEnd(openTxns)
              /\ txRows' = [txRows EXCEPT ![w] = <<>>]
              /\ pos' = [pos EXCEPT ![w] = 0]
              /\ failed' = failed \cup {cur[w]}
              /\ ret' = [ret EXCEPT ![cur[w]] = Err(cur[w])]
              /\ wpc' = [wpc EXCEPT ![w] = PcAfterInsertError(cur[w])]
              /\ UNCHANGED store
    /\ UNCHANGED <<configVars, reconVars, pipeVars, faults, mainPc, result, batches, batchChan, errorChan, wg,
                   spawned, cur, streamVars, takenBy, reported>>

\* return tx.Commit(): the transaction ends either way; its rows reach the table
\* only when the commit succeeds.
PBI_Commit(w) ==
    /\ variant = "prepared"
    /\ wpc[w] = "intx"
    /\ pos[w] > Len(batches[cur[w]])
    /\ \E ok \in BOOLEAN :
         IF ok
         THEN /\ store' = StoreAfterCommit(store, txRows[w])
              /\ ret' = [ret EXCEPT ![cur[w]] = Nil]
              /\ wpc' = [wpc EXCEPT ![w] = "recv"]
              /\ UNCHANGED failed
         ELSE /\ failed' = failed \cup {cur[w]}
              /\ ret' = [ret EXCEPT ![cur[w]] = Err(cur[w])]
              /\ wpc' = [wpc EXCEPT ![w] = PcAfterInsertError(cur[w])]
              /\ UNCHANGED store
    /\ txOpen' = [txOpen EXCEPT ![w] = FALSE]
    /\ openTxns' = TxnsAfterEnd(openTxns)
    /\ txRows' = [txRows EXCEPT ![w] = <<>>]
    /\ pos' = [pos EXCEPT ![w] = 0]
    /\ UNCHANGED <<configVars, reconVars, pipeVars, faults, mainPc, result, batches, batchChan, errorChan, wg,
                   spawned, cur, streamVars, takenBy, reported>>

\* ---------------------------------------------------- StreamInsertRecords
\* The call of sbi.insertBatch(batch) from StreamInsertRecords: the buffer's
\* content is the batch handed over.
SBI_CallInsert(b, from) ==
    /\ batches' = Append(batches, b)
    /\ cur' = [cur EXCEPT ![0] = Len(batches) + 1]
    /\ ret' = Append(ret, NotReturned)
    /\ takenBy' = Append(takenBy, <<0>>)
    /\ resume' = from
    /\ mainPc' = "sbegin"
    /\ UNCHANGED result

\* for record := range recordChan: append the record and insert the batch when it
\* is full; after the channel is closed and empty, insert what remains.
SBI_Receive ==
    /\ variant = "stream"
    /\ mainPc = "loop"
    /\ IF recordChan # <<>>
       THEN /\ recordChan' = Tail(recordChan)
            /\ batch' = Append(batch, Head(recordChan))
            /\ IF Len(batch') >= batchSize
               THEN SBI_CallInsert(batch', "loop")
               ELSE UNCHANGED <<batches, cur, ret, takenBy, resume, mainPc, result>>
       ELSE /\ UNCHANGED <<recordChan, batch>>
            /\ IF Len(batch) > 0
               THEN SBI_CallInsert(batch, "final")
               ELSE /\ result' = Nil
                    /\ mainPc' = "done"
                    /\ UNCHANGED <<batches, cur, ret, takenBy, resume>>
    /\ UNCHANGED <<configVars, reconVars, pipeVars, faults, batchChan, errorChan, wg, spawned, wpc, txVars, store,
                   failed, reported>>

\* Mutant: the buffer is not emptied after its batch was inserted.
BatchAfterInsert_Kept(b) == b

\* batch = batch[:0]: the buffer is emptied and its storage reused; insertBatch
\* has returned, so nothing reads the old contents any more.
BatchAfterInsert(b) == <<>>

\* Mutant: after a failed insertBatch the loop goes on receiving.
SBI_PcAfterInsertError_Continue(from) == "loop"

\* if err := sbi.insertBatch(batch); err != nil { return err }
SBI_PcAfterInsertError(from) == "done"

\* What StreamInsertRecords does with insertBatch's return value.
SBI_Returned(ok) ==
    IF ok
    THEN /\ ret' = [ret EXCEPT ![cur[0]] = Nil]
         /\ UNCHANGED failed
         /\ IF resume = "loop"
            THEN /\ batch' = BatchAfterInsert(batch)
                 /\ mainPc' = "loop"
                 /\ UNCHANGED result
            ELSE /\ result' = Nil
                 /\ mainPc' = "done"
                 /\ UNCHANGED batch
    ELSE /\ ret' = [ret EXCEPT ![cur[0]] = Err(cur[0])]
         /\ failed' = failed \cup {cur[0]}
         /\ result' = Err(cur[0])
         /\ mainPc' = SBI_PcAfterInsertError(resume)
         /\ UNCHANGED batch

\* StreamingBatchInserter.insertBatch: the empty-batch return and sbi.db.Beginx().
SBI_Begin ==
    /\ variant = "stream"
    /\ mainPc = "sbegin"
    /\ IF Len(batches[cur[0]]) = 0
       THEN /\ SBI_Returned(TRUE)
            /\ UNCHANGED txVars
       ELSE \E ok \in BOOLEAN :
              IF ok
              THEN /\ txOpen' = [txOpen EXCEPT ![0] = TRUE]
                   /\ openTxns' = openTxns + 1
                   /\ txRows' = [txRows EXCEPT ![0] = <<>>]
                   /\ pos' = [pos EXCEPT ![0] = 1]
                   /\ mainPc' = "sintx"
                   /\ UNCHANGED <<ret, failed, result, batch>>
              ELSE /\ SBI_Returned(FALSE)
                   /\ UNCHANGED txVars
    /\ UNCHANGED <<configVars, reconVars, pipeVars, faults, batches, batchChan, errorChan, wg, spawned, wpc, cur,
                   store, recordChan, resume, takenBy, reported>>

\* One iteration of the per-record loop of StreamingBatchInserter.insertBatch.
SBI_Exec ==
    /\ variant = "stream"
    /\ mainPc = "sintx"
    /\ pos[0] <= Len(batches[cur[0]])
    /\ \E ok \in BOOLEAN :
         IF ok
         THEN /\ txRows' = [txRows EXCEPT ![0] = Append(@, batches[cur[0]][pos[0]])]
              /\ pos' = [pos EXCEPT ![0] = @ + 1]
              /\ UNCHANGED <<txOpen, openTxns, mainPc, ret, failed, result, batch>>
         ELSE /\ txOpen' = [txOpen EXCEPT ![0] = FALSE]
              /\ openTxns' = TxnsAfterEnd(openTxns)
              /\ txRows' = [txRows EXCEPT ![0] = <<>>]
              /\ pos' = [pos EXCEPT ![0] = 0]
              /\ SBI_Returned(FALSE)
    /\ UNCHANGED <<configVars, reconVars, pipeVars, faults, batches, batchChan, errorChan, wg, spawned, wpc, cur,
                   store, recordChan, resume, takenBy, reported>>

\* return tx.Commit() of StreamingBatchInserter.insertBatch.
SBI_Commit ==
    /\ variant = "stream"
    /\ mainPc = "sintx"
    /\ pos[0] > Len(batches[cur[0]])
    /\ \E ok \in BOOLEAN :
         /\ store' = IF ok THEN StoreAfterCommit(store, txRows[0]) ELSE store
         /\ SBI_Returned(ok)
    /\ txOpen' = [txOpen EXCEPT ![0] = FALSE]
    /\ openTxns' = TxnsAfterEnd(openTxns)
    /\ txRows' = [txRows EXCEPT ![0] = <<>>]
    /\ pos' = [pos EXCEPT ![0] = 0]
    /\ UNCHANGED <<configVars, reconVars, pipeVars, faults, batches, batchChan, errorChan, wg, spawned, wpc, cur,
                   recordChan, resume, takenBy, reported>>

Next ==
    \/ BatchInsertRecords_Call
    \/ StartWorker
    \/ Wait
    \/ CheckErrors
    \/ \E w \in Workers : WorkerReceive(w)
    \/ \E w \in Workers : WorkerSendError(w)
    \/ \E w \in Workers : BI_insertBatch(w)
    \/ \E w \in Workers : PBI_Begin(w)
    \/ \E w \in Workers : PBI_Exec(w)
    \/ \E w \in Workers : PBI_Commit(w)
    \/ SBI_Receive
    \/ SBI_Begin
    \/ SBI_Exec
    \/ SBI_Commit

Spec == Init /\ [][Next]_vars

\* ------------------------------------------- createBatches on every input
\* SpecBatches applies createBatches of either inserter to every record sequence
\* of at most MaxLen payloads and every batchSize a constructor can produce.
InitBatches ==
    /\ variant \in {"adhoc", "prepared"}
    /\ records \in {Tagged(v) : v \in SeqsUpTo(RecordVals, MaxLen)}
    /\ batchSize \in {NewBatchSize(a) : a \in 0 .. MaxBatchSize}
    /\ workers = NewWorkers(0)
    /\ mainPc = "call"
    /\ result = NotReturned
    /\ batches = <<>>
    /\ batchChan = <<>>
    /\ errorChan = <<>>
    /\ wg = 0
    /\ spawned = 0
    /\ wpc = [w \in Workers |-> "idle"]
    /\ cur = [g \in Goroutines |-> 0]
    /\ pos = [g \in Goroutines |-> 0]
    /\ txOpen = [g \in Goroutines |-> FALSE]
    /\ txRows = [g \in Goroutines |-> <<>>]
    /\ openTxns = 0
    /\ store = <<>>
    /\ recordChan = <<>>
    /\ batch = <<>>
    /\ resume = "loop"
    /\ InitHistory
    /\ InitReconIdle
    /\ InitPipeIdle

createBatches_Call ==
    /\ mainPc = "call"
    /\ batches' = createBatches(variant, records, batchSize)
    /\ mainPc' = "done"
    /\ UNCHANGED <<configVars, reconVars, pipeVars, faults, result, batchChan, errorChan, wg, spawned, wpc, cur,
                   txVars, store, streamVars, takenBy, failed, ret, reported>>

NextBatches == createBatches_Call

SpecBatches == InitBatches /\ [][NextBatches]_vars

\* =============================================================== properties
Vals(recs) == [i \in DOMAIN recs |-> recs[i].val]
IsLoader == variant \in {"adhoc", "prepared"}
FailedBatches == failed

\* The rows of the table that came from batch b.
PersistedOf(b) == {i \in DOMAIN store : \E k \in DOMAIN batches[b] : store[i] = batches[b][k]}
FullyPersisted(b) ==
    /\ Cardinality(PersistedOf(b)) = Len(batches[b])
    /\ \A k \in DOMAIN batches[b] : \E i \in DOMAIN store : store[i] = batches[b][k]
NoWorkerRunning == \A w \in Workers : wpc[w] \in {"idle", "done"}

\* C1: for every record sequence and every batchSize >= 1, the batches that
\* createBatches (of BatchInserter and of PreparedBatchInserter) returns hold,
\* taken together, exactly the multiset of the input records: none is lost and
\* none is duplicated, the inputs of length 0 and 1 included.
C1_BatchesPartitionInput ==
    mainPc = "done" =>
        /\ BagOfSeq(Vals(Flatten(batches))) = BagOfSeq(Vals(records))
        /\ Len(Flatten(batches)) = Len(records)

C1_Witness ==
    /\ mainPc = "done"
    /\ Len(batches) >= 2
    /\ Len(batches[Len(batches)]) < batchSize
    /\ \E i, j \in DOMAIN records : i # j /\ records[i].val = records[j].val

\* C2: in every state, every batch handed to insertBatch (of any of the three
\* inserters) has either all of its records in the table or none; a batch one
\* of whose store calls failed has none, and insertBatch returned the error.
C2_BatchAtomic ==
    \A b \in DOMAIN batches :
        /\ PersistedOf(b) = {} \/ FullyPersisted(b)
        /\ b \in FailedBatches => PersistedOf(b) = {} /\ ret[b] = Err(b)
        /\ ret[b] = Nil => FullyPersisted(b)

C2_Witness ==
    /\ variant = "prepared"
    /\ \E b \in failed : Len(batches[b]) >= 2 /\ PersistedOf(b) = {} /\ ret[b] = Err(b)
    /\ \E b \in DOMAIN batches : ret[b] = Nil

\* C3: when at least one batch insert failed during BatchInsertRecords, the call
\* returns a non-nil error, the first one a worker sent to errorChan, and the
\* batches other workers committed are still in the table.
C3_FirstErrorWins ==
    (IsLoader /\ mainPc = "done") =>
        /\ FailedBatches # {} =>
              /\ reported # <<>>
              /\ result # Nil
              /\ result = reported[1]
        /\ \A b \in DOMAIN batches : ret[b] = Nil => FullyPersisted(b)

C3_Witness ==
    /\ IsLoader
    /\ mainPc = "done"
    /\ Len(reported) >= 2
    /\ reported[1] # reported[2]
    /\ \E b \in DOMAIN batches : ret[b] = Nil

\* C4 (as claimed): BatchInsertRecords on a non-empty input runs exactly `workers`
\* workers and, when it returns, every batch has been taken from the queue by
\* exactly one worker.
C4_EveryBatchTakenOnce ==
    (IsLoader /\ mainPc = "done" /\ Len(records) > 0) =>
        /\ spawned = workers
        /\ \A b \in DOMAIN batches : Len(takenBy[b]) = 1

\* C4 (amended): BatchInsertRecords on a non-empty input runs exactly `workers`
\* workers that pull from one shared queue; no batch is ever taken by two workers
\* or taken twice, and a batch is left untaken at return only when every worker
\* stopped on a failed insert.
C4_BatchTakenAtMostOnce ==
    IsLoader =>
        /\ \A b \in DOMAIN batches : Len(takenBy[b]) <= 1
        /\ \A w \in Workers : cur[w] # 0 => takenBy[cur[w]] = <<w>>
        /\ spawned <= workers
        /\ (mainPc \in {"wait", "read", "done"} /\ Len(records) > 0) => spawned = workers
        /\ (mainPc = "done" /\ \E b \in DOMAIN batches : takenBy[b] = <<>>) =>
              Len(reported) = workers

C4_Witness ==
    /\ IsLoader
    /\ mainPc = "done"
    /\ workers >= 2
    /\ spawned = workers
    /\ \E b \in DOMAIN batches : takenBy[b] = <<>>
    /\ \E b, c \in DOMAIN batches : takenBy[b] # <<>> /\ takenBy[c] # <<>>
                                     /\ takenBy[b] # takenBy[c]

\* C5 (as claimed): when BatchInsertRecords has returned, every worker has exited
\* and no batch is left in the queue.
C5_ReturnsAfterDrain ==
    (IsLoader /\ mainPc = "done") => NoWorkerRunning /\ batchChan = <<>>

\* C5 (amended): when BatchInsertRecords has returned, every worker has exited;
\* the queue is empty unless every worker stopped on a failed insert, and then
\* the batches left in it were never attempted.
C5_ReturnsAfterWorkersExit ==
    (IsLoader /\ mainPc = "done") =>
        /\ NoWorkerRunning
        /\ wg = 0
        /\ batchChan # <<>> =>
              /\ Len(reported) = workers
              /\ \A i \in DOMAIN batchChan : takenBy[batchChan[i]] = <<>>
                                              /\ PersistedOf(batchChan[i]) = {}

C5_Witness ==
    /\ IsLoader
    /\ mainPc = "done"
    /\ batchChan # <<>>
    /\ store # <<>>

\* C6: the caller receives from errorChan only after every worker has finished:
\* whenever it is at the receive, no worker is running, the WaitGroup counter is
\* zero and every error any worker sends is already in the channel.
C6_ErrorsReadAfterWorkers ==
    (IsLoader /\ mainPc = "read") =>
        /\ \A w \in Workers : wpc[w] = "done"
        /\ wg = 0
        /\ errorChan = reported
        /\ Len(reported) = Cardinality(FailedBatches)

C6_Witness ==
    /\ IsLoader
    /\ mainPc = "read"
    /\ Len(errorChan) >= 2

\* C7: a transaction opened by insertBatch is committed or rolled back before
\* insertBatch returns: a goroutine holds an open transaction only while it is
\* inside insertBatch, never when it pulls the next batch, sends its error or
\* has exited, whether the batch succeeded, a record failed or the commit failed.
C7_NoOpenTransactionOutsideInsert ==
    /\ \A w \in Workers : txOpen[w] => (variant = "prepared" /\ wpc[w] = "intx")
    /\ txOpen[0] => (variant = "stream" /\ mainPc = "sintx")
    /\ \A g \in Goroutines : ~txOpen[g] => txRows[g] = <<>>

C7_Witness ==
    /\ variant = "prepared"
    /\ mainPc = "done"
    /\ \E b \in failed : Len(batches[b]) >= 2
    /\ \E b \in DOMAIN batches : ret[b] = Nil
    /\ \A w \in Workers : wpc[w] = "done" /\ ~txOpen[w]

\* What the ad-hoc inserter's state shows of a worker: a worker of the prepared
\* inserter inside its transaction is a worker that has not finished its insert.
AbsPc(w) == IF wpc[w] = "intx" THEN "insert" ELSE wpc[w]

\* The state of a load as the ad-hoc inserter has it (no transaction fields).
AbsView ==
    <<mainPc, result, batches, batchChan, errorChan, wg, spawned,
      [w \in Workers |-> AbsPc(w)], cur, store, ret, takenBy, reported, FailedBatches>>

\* A step of BatchInserter.insertBatch by worker w, on the ad-hoc view.
AdhocInsertStep(w) ==
    /\ AbsPc(w) = "insert"
    /\ \/ /\ store' = BI_StoreAfterExec(store, batches[cur[w]])
          /\ ret' = [ret EXCEPT ![cur[w]] = Nil]
          /\ AbsPc(w)' = "recv"
          /\ FailedBatches' = FailedBatches
       \/ /\ store' = store
          /\ ret' = [ret EXCEPT ![cur[w]] = Err(cur[w])]
          /\ AbsPc(w)' = "send"
          /\ FailedBatches' = FailedBatches \cup {cur[w]}
    /\ \A v \in Workers \ {w} : AbsPc(v)' = AbsPc(v)
    /\ UNCHANGED <<mainPc, result, batches, batchChan, errorChan, wg, spawned, cur,
                   takenBy, reported>>

\* A step of the ad-hoc inserter outside insertBatch.
AdhocOtherStep ==
    \/ BatchInsertRecords_CallOf("adhoc")
    \/ StartWorker
    \/ Wait
    \/ CheckErrors
    \/ \E w \in Workers : WorkerReceive(w)
    \/ \E w \in Workers : WorkerSendError(w)

\* The result of a finished load as a function of the store calls that failed
\* and the batches that were attempted, the same for both inserters.
LoadOutcome ==
    (IsLoader /\ mainPc = "done") =>
        /\ (result = Nil) <=> (FailedBatches = {})
        /\ \A b \in DOMAIN batches :
              /\ FullyPersisted(b) <=> (takenBy[b] # <<>> /\ b \notin FailedBatches)
              /\ PersistedOf(b) = {} <=> (takenBy[b] = <<>> \/ b \in FailedBatches)
        /\ Len(store) = Cardinality(UNION {PersistedOf(b) : b \in DOMAIN batches})

\* C8: for the same records, batchSize, workers and failing store calls, the
\* prepared inserter behaves as the ad-hoc one: every step of a prepared load is,
\* with its transaction hidden, a step the ad-hoc load takes or no step at all,
\* and both return an error exactly when a store call failed and leave exactly
\* the attempted batches without a failed store call in the table.
C8_PreparedBehavesAsAdhoc ==
    /\ []LoadOutcome
    /\ [][variant = "prepared" =>
            \/ UNCHANGED AbsView
            \/ AdhocOtherStep
            \/ \E w \in Workers : AdhocInsertStep(w)]_vars

C8_Witness ==
    /\ variant = "prepared"
    /\ mainPc = "done"
    /\ result # Nil
    /\ \E b \in DOMAIN batches : FullyPersisted(b) /\ Len(batches[b]) >= 2
    /\ \E b \in DOMAIN batches : takenBy[b] # <<>> /\ b \in FailedBatches

\* C9 (as claimed): StreamInsertRecords groups the records it receives into
\* batches of at most batchSize and has them committed by `workers` concurrent
\* workers that pull them from a shared queue.
C9_StreamUsesWorkerPool ==
    variant = "stream" =>
        /\ \A b \in DOMAIN batches : Len(batches[b]) >= 1 /\ Len(batches[b]) <= batchSize
        /\ \A b \in DOMAIN batches : \A k \in DOMAIN takenBy[b] : takenBy[b][k] \in Workers
        /\ (mainPc = "done" /\ batches # <<>>) => spawned = workers

\* ======================================================== RunReconciliation
\* SpecRecon: RunReconciliation called up to MaxRuns times on a records table an
\* ingestion from a cleared store can leave: payments rows (one per accepted
\* payment line: non-empty order key, non-zero total, order keys may repeat)
\* followed by settlements rows (one per order key, in any order). Every store
\* call may fail.
\* The zero time.Time, and the raw_data of a row made from no line.
ZeroTime == <<"time", 0>>
NoRawData == [order |-> "", amount |-> "", total |-> "", date |-> ""]

\* A row of table records.
StoredRow(id, source, order, date, total, raw) ==
    [id |-> id, source |-> source, order_id |-> order, date |-> date,
     total_amount |-> total, raw_data |-> raw]

\* A row whose date and raw_data RunReconciliation never reads.
Row(id, source, order, total) == StoredRow(id, source, order, ZeroTime, total, NoRawData)

PaymentLines == SeqsUpTo(Orders \X PaymentTotals, MaxPayments)

SettlementLines ==
    {s \in SeqsUpTo(Orders \X SettlementTotals, Cardinality(Orders)) :
        \A i, j \in DOMAIN s : i # j => s[i][1] # s[j][1]}

RecordsTable(pay, st) ==
    [i \in 1 .. Len(pay) + Len(st) |->
        IF i <= Len(pay)
        THEN Row(i, "payments", pay[i][1], pay[i][2])
        ELSE Row(i, "settlements", st[i - Len(pay)][1], st[i - Len(pay)][2])]

InitLoaderIdle ==
    /\ variant = "adhoc"
    /\ records = <<>>
    /\ batchSize = NewBatchSize(0)
    /\ workers = NewWorkers(0)
    /\ mainPc = "idle"
    /\ result = NotReturned
    /\ batches = <<>>
    /\ batchChan = <<>>
    /\ errorChan = <<>>
    /\ wg = 0
    /\ spawned = 0
    /\ wpc = [w \in Workers |-> "idle"]
    /\ cur = [g \in Goroutines |-> 0]
    /\ pos = [g \in Goroutines |-> 0]
    /\ txOpen = [g \in Goroutines |-> FALSE]
    /\ txRows = [g \in Goroutines |-> <<>>]
    /\ openTxns = 0
    /\ store = <<>>
    /\ recordChan = <<>>
    /\ batch = <<>>
    /\ resume = "loop"
    /\ InitHistory

InitRecon ==
    /\ InitLoaderIdle
    /\ dbRecords \in {RecordsTable(pay, st) : pay \in PaymentLines, st \in SettlementLines}
    /\ reconciled = EmptyBag
    /\ rPc = "idle"
    /\ rResult = NotReturned
    /\ rCursor = {}
    /\ rRow = <<>>
    /\ rRuns = 0
    /\ rFailed = FALSE
    /\ rPrior = EmptyBag
    /\ InitPipeIdle

\* SELECT p.id, p.order_id, p.total_amount, s.id, s.total_amount FROM records p
\* JOIN records s ON p.order_id = s.order_id
\* WHERE p.source = 'payments' AND s.source = 'settlements'
JoinRows(tbl) ==
    {<<tbl[p].id, tbl[p].order_id, tbl[p].total_amount, tbl[s].id, tbl[s].total_amount>> :
        <<p, s>> \in {ps \in (DOMAIN tbl) \X (DOMAIN tbl) :
                        /\ tbl[ps[1]].order_id = tbl[ps[2]].order_id
                        /\ tbl[ps[1]].source = "payments"
                        /\ tbl[ps[2]].source = "settlements"}}

\* diff := paymentTotal - settlementTotal and the row of the INSERT.
ReconciledRow(r) ==
    [payments_record_id |-> r[1], settlements_record_id |-> r[4],
     amount_difference |-> r[3] - r[5]]

\* The caller invokes RunReconciliation.
RunReconciliation_Call ==
    /\ rPc \in {"idle", "done"}
    /\ rRuns < MaxRuns
    /\ rRuns' = rRuns + 1
    /\ rPc' = "delete"
    /\ rResult' = NotReturned
    /\ rFailed' = FALSE
    /\ rPrior' = reconciled
    /\ UNCHANGED <<loaderVars, pipeVars, faults, dbRecords, reconciled, rCursor, rRow>>

\* config.DB.Exec("DELETE FROM reconciled_records"): the error is not looked at.
RunReconciliation_Delete ==
    /\ rPc = "delete"
    /\ \E ok \in Outcomes :
         /\ faults' = FaultsAfter(ok)
         /\ reconciled' = IF ok THEN EmptyBag ELSE reconciled
         /\ rFailed' = (rFailed \/ ~ok)
    /\ rPc' = "query"
    /\ UNCHANGED <<loaderVars, pipeVars, rPrior, dbRecords, rResult, rCursor, rRow, rRuns>>

\* rows, err := config.DB.Query(query); if err != nil { return err }
RunReconciliation_Query ==
    /\ rPc = "query"
    /\ \E ok \in Outcomes :
         /\ faults' = FaultsAfter(ok)
         /\ IF ok
            THEN /\ rCursor' = JoinRows(dbRecords)
                 /\ rPc' = "loop"
                 /\ UNCHANGED <<rResult, rFailed>>
            ELSE /\ rResult' = Err(0)
                 /\ rPc' = "done"
                 /\ rFailed' = TRUE
                 /\ UNCHANGED rCursor
    /\ UNCHANGED <<loaderVars, pipeVars, rPrior, dbRecords, reconciled, rRow, rRuns>>

\* for rows.Next() { rows.Scan(...) ... }; return nil. The query has no ORDER BY,
\* so the rows come in any order. (A failure of the iteration itself, which
\* rows.Err() would report, is left out.)
RunReconciliation_Next ==
    /\ rPc = "loop"
    /\ IF rCursor # {}
       THEN /\ \E r \in rCursor :
                 /\ rRow' = r
                 /\ rCursor' = rCursor \ {r}
            /\ rPc' = "insert"
            /\ UNCHANGED rResult
       ELSE /\ rResult' = Nil
            /\ rPc' = "done"
            /\ UNCHANGED <<rCursor, rRow>>
    /\ UNCHANGED <<loaderVars, pipeVars, faults, rPrior, dbRecords, reconciled, rRuns, rFailed>>

\* config.DB.Exec(INSERT INTO reconciled_records ...): the error is not looked at.
RunReconciliation_Insert ==
    /\ rPc = "insert"
    /\ \E ok \in Outcomes :
         /\ faults' = FaultsAfter(ok)
         /\ reconciled' = IF ok THEN reconciled (+) SetToBag({ReconciledRow(rRow)})
                          ELSE reconciled
         /\ rFailed' = (rFailed \/ ~ok)
    /\ rPc' = "loop"
    /\ UNCHANGED <<loaderVars, pipeVars, rPrior, dbRecords, rResult, rCursor, rRow, rRuns>>

NextRecon ==
    \/ RunReconciliation_Call
    \/ RunReconciliation_Delete
    \/ RunReconciliation_Query
    \/ RunReconciliation_Next
    \/ RunReconciliation_Insert

SpecRecon == InitRecon /\ [][NextRecon]_vars

\* ---------------------------------------------------------------- C10
RecordWithId(id) == {i \in DOMAIN dbRecords : dbRecords[i].id = id}
ResultRows == BagToSet(reconciled)

\* The order keys present in both sources.
MatchedKeys ==
    {k \in Orders :
        /\ \E i \in DOMAIN dbRecords :
              dbRecords[i].source = "payments" /\ dbRecords[i].order_id = k
        /\ \E i \in DOMAIN dbRecords :
              dbRecords[i].source = "settlements" /\ dbRecords[i].order_id = k}

\* The order keys that have a result row.
ReconciledKeys ==
    {dbRecords[i].order_id :
        i \in UNION {RecordWithId(r.payments_record_id) : r \in ResultRows}}

RowIsMatchedPair(r) ==
    \E p, s \in DOMAIN dbRecords :
        /\ dbRecords[p].id = r.payments_record_id
        /\ dbRecords[s].id = r.settlements_record_id
        /\ dbRecords[p].source = "payments"
        /\ dbRecords[s].source = "settlements"
        /\ dbRecords[p].order_id = dbRecords[s].order_id
        /\ r.amount_difference = dbRecords[p].total_amount - dbRecords[s].total_amount

\* Without a failed store call in the run, the rows are those of the inner join.
InnerJoinWhenNoStoreCallFailed ==
    (rPc = "done" /\ rResult = Nil /\ ~rFailed) =>
        /\ ReconciledKeys = MatchedKeys
        /\ \A r \in ResultRows : RowIsMatchedPair(r)

\* C10: after RunReconciliation has completed, a reconciled_records row exists
\* for order key K exactly when records holds a payments row and a settlements
\* row with order_id K, every result row's amount_difference is its payments
\* total minus its settlements total, and an order present in one source only
\* has no result row.
C10_InnerJoinAfterRun ==
    (rPc = "done" /\ rResult = Nil) =>
        /\ ReconciledKeys = MatchedKeys
        /\ \A r \in ResultRows : RowIsMatchedPair(r)

\* ================================================================ ingestion
\* ClearExistingData, ParseAndStorePayments, ParseAndStoreSettlements and
\* IngestAllFiles, each store call of which may fail. Amounts are counted in
\* hundredths.

\* ---------------------------------------------------------- the two tables
\* reconciled_records.payments_record_id and settlements_record_id REFERENCES
\* records(id): whether some row of reconciled_records references a row of tbl.
Referenced(tbl, rec) ==
    \E r \in BagToSet(rec) : \E i \in DOMAIN tbl :
        tbl[i].id \in {r.payments_record_id, r.settlements_record_id}

\* Mutant: the foreign keys are not enforced.
DeleteRecordsAllowed_NoForeignKey(tbl, rec) == TRUE

\* DELETE FROM records is rejected while a row of it is referenced.
DeleteRecordsAllowed(tbl, rec) == ~Referenced(tbl, rec)

\* id SERIAL PRIMARY KEY: a row whose id is already present is rejected.
InsertRecordAllowed(tbl, id) == \A i \in DOMAIN tbl : tbl[i].id # id

\* Mutant: the insert replaces the stored rows of the same source and order key.
RecordsAfterInsert_Upsert(tbl, row, ok) ==
    IF ok /\ InsertRecordAllowed(tbl, row.id)
    THEN Append(SelectSeq(tbl, LAMBDA t : ~(t.source = row.source /\ t.order_id = row.order_id)),
                row)
    ELSE tbl

\* INSERT INTO records (source, order_id, date, total_amount, raw_data): the id
\* is drawn from records_id_seq whether or not the row is accepted.
RecordsAfterInsert(tbl, row, ok) ==
    IF ok /\ InsertRecordAllowed(tbl, row.id)
    THEN Append(tbl, row)
    ELSE tbl

\* The rows of the table without their ids, as a bag.
StoredContent(tbl) ==
    BagOfSeq([i \in DOMAIN tbl |->
        [source |-> tbl[i].source, order_id |-> tbl[i].order_id,
         total_amount |-> tbl[i].total_amount, raw_data |-> tbl[i].raw_data]])

\* ------------------------------------------------------------ the sources
\* A line as the reader delivers it: its number of fields, whether its first
\* field contains "date/time", and the texts of its order, amount, total and
\* date columns. "error" is a read that fails, "eof" the end of the source.
Line(dt, n, order, amount, total) ==
    [kind |-> "line", dt |-> dt, nfields |-> n, order |-> order, amount |-> amount,
     total |-> total, date |-> ""]
Unreadable == [kind |-> "error", dt |-> FALSE, nfields |-> 0, order |-> "", amount |-> "",
               total |-> "", date |-> ""]
EndOfFile == [kind |-> "eof", dt |-> FALSE, nfields |-> 0, order |-> "", amount |-> "",
              total |-> "", date |-> ""]

\* The line with the text of its date column ("date/time", "posted-date-time").
Dated(line, text) == [line EXCEPT !.date = text]
JunkLine == Line(FALSE, 1, "", "", "")
EmptyLine == Line(FALSE, 1, "", "", "")

\* The n-th read of the source.
ReadAt(f, n) ==
    IF n <= f.junk THEN JunkLine
    ELSE IF n - f.junk <= Len(f.rest) THEN f.rest[n - f.junk]
    ELSE EndOfFile

\* strings.TrimSpace on the texts the sources are drawn from.
TrimSpace(s) == IF s = " " THEN "" ELSE s

\* parseFloat / parseSettlementFloat: the empty text and a text that is not a
\* number give 0.
parseFloat(s) ==
    CASE s = "100.00" -> 10000
      [] s = "150.00" -> 15000
      [] s = "145.00" -> 14500
      [] s = "45.00" -> 4500
      [] s = "0.00" -> 0
      [] s = "" -> 0
      [] OTHER -> 0

\* time.Parse on the date texts the sources are drawn from: the empty text
\* leaves the zero time, the two layouts of each function give the time written.
\* (A text neither layout accepts gives time.Now(); no source of the model
\* carries one and the clock is not part of the model.)
ParseDate(text) ==
    CASE text = "" -> ZeroTime
      [] text = "2024-01-01 10:00:00 UTC" -> <<"time", 1>>
      [] text = "2024-01-02 10:00:00" -> <<"time", 2>>
      [] OTHER -> <<"now", 0>>

\* json.Marshal(data): the trimmed text of every column, by column name.
RawData(row) ==
    [order |-> TrimSpace(row.order), amount |-> TrimSpace(row.amount),
     total |-> TrimSpace(row.total), date |-> TrimSpace(row.date)]

\* PaymentFromCSVRow(headers, row).
PaymentFromCSVRow(hdr, row) ==
    IF row.nfields < hdr
    THEN [err |-> TRUE, OrderID |-> "", Total |-> 0, Date |-> ZeroTime, RawData |-> NoRawData]
    ELSE [err |-> FALSE, OrderID |-> TrimSpace(row.order), Total |-> parseFloat(row.total),
          Date |-> ParseDate(TrimSpace(row.date)), RawData |-> RawData(row)]

\* SettlementFromTSVRow(headers, row).
SettlementFromTSVRow(hdr, row) ==
    IF row.nfields < hdr
    THEN [err |-> TRUE, OrderID |-> "", Amount |-> 0, TotalAmount |-> 0,
          PostedDateTime |-> ZeroTime, RawData |-> NoRawData]
    ELSE [err |-> FALSE, OrderID |-> TrimSpace(row.order),
          Amount |-> parseFloat(row.amount), TotalAmount |-> parseFloat(row.total),
          PostedDateTime |-> ParseDate(TrimSpace(row.date)), RawData |-> RawData(row)]

\* if err != nil || payment.OrderID == "" || payment.Total == 0 { continue }
PaymentAccepted(hdr, row) ==
    LET payment == PaymentFromCSVRow(hdr, row)
    IN  ~payment.err /\ payment.OrderID # "" /\ payment.Total # 0

\* line == "", len(fields) < len(headers), err != nil || settlement.OrderID == "".
SettlementAccepted(hdr, row) ==
    LET settlement == SettlementFromTSVRow(hdr, row)
    IN  row.nfields >= hdr /\ ~settlement.err /\ settlement.OrderID # ""

\* make(map[string]float64): a key that is absent reads as 0.
EmptyMap == [k \in {} |-> 0]
MapGet(m, k) == IF k \in DOMAIN m THEN m[k] ELSE 0

\* Mutant: the loop adds the item's total_amount.
AddedAmount_TotalAmount(settlement) == settlement.TotalAmount

\* orderTotals[settlement.OrderID] += settlement.Amount
AddedAmount(settlement) == settlement.Amount

\* One iteration of the loop of AggregateSettlementsByOrderID.
AggregateStep(totals, settlement) ==
    IF settlement.OrderID # ""
    THEN [k \in DOMAIN totals \cup {settlement.OrderID} |->
            IF k = settlement.OrderID
            THEN MapGet(totals, k) + AddedAmount(settlement)
            ELSE totals[k]]
    ELSE totals

RECURSIVE AggregateLoop(_, _)
AggregateLoop(totals, ss) ==
    IF ss = <<>> THEN totals
    ELSE AggregateLoop(AggregateStep(totals, Head(ss)), Tail(ss))

\* AggregateSettlementsByOrderID(settlements).
AggregateSettlementsByOrderID(ss) == AggregateLoop(EmptyMap, ss)

\* Mutant: the representative is the last item with the key.
FirstSettlement_Last(ss, orderID) ==
    ss[CHOOSE i \in DOMAIN ss :
          /\ ss[i].OrderID = orderID
          /\ \A j \in DOMAIN ss : j > i => ss[j].OrderID # orderID]

\* for _, s := range settlements { if s.OrderID == orderID { firstSettlement = s;
\* break } }: every key of orderTotals is the key of some item.
FirstSettlement(ss, orderID) ==
    ss[CHOOSE i \in DOMAIN ss :
          /\ ss[i].OrderID = orderID
          /\ \A j \in DOMAIN ss : j < i => ss[j].OrderID # orderID]

\* Mutant: a failed first Scan is not looked at.
ScanFailed_Ignored(line) == FALSE

\* !scanner.Scan(): the source has ended or the line cannot be read.
ScanFailed(line) == line.kind # "line"

\* Error values of the ingestion.
ErrOpen == <<"open", 0>>
ErrEOF == <<"EOF", 0>>
ErrRead == <<"read", 0>>
ErrHeadersNotFound == <<"headers not found", 0>>
ErrEmptyFile == <<"empty file", 0>>

\* for i := 0; i < 20; i++
ScanWindowOpen(i) == i < 20

ingestLocals == <<pRead, sRead, headers, scanI, settlements, orderTotals>>
ingestResults == <<cResult, pResult, sResult, iResult>>
mainVars == <<mPc, report>>
fileVars == <<paymentFile, settlementFile>>

\* ---------------------------------------------------------- IngestAllFiles
\* What a call of IngestAllFiles starts from.
IngestAllFiles_Enter ==
    /\ iRuns' = iRuns + 1
    /\ iPc' = "clear_reconciled"
    /\ pRead' = 0
    /\ sRead' = 0
    /\ headers' = 0
    /\ scanI' = 0
    /\ settlements' = <<>>
    /\ orderTotals' = EmptyMap
    /\ cResult' = NotReturned
    /\ pResult' = NotReturned
    /\ sResult' = NotReturned
    /\ iResult' = NotReturned
    /\ ingested' = <<>>
    /\ iFailed' = {}
    /\ iPrior' = StoredContent(dbRecords)

\* IngestAllFiles called on its own.
IngestAllFiles_Call ==
    /\ iPc \in {"idle", "done"}
    /\ iRuns < MaxRuns
    /\ IngestAllFiles_Enter
    /\ UNCHANGED <<loaderVars, faults, reconVars, mainVars, fileVars, recordsSeq>>

\* ------------------------------------------------------- ClearExistingData
\* config.DB.Exec("DELETE FROM reconciled_records"): the error is not looked at.
Clear_DeleteReconciled ==
    /\ iPc = "clear_reconciled"
    /\ \E ok \in Outcomes :
         /\ faults' = FaultsAfter(ok)
         /\ reconciled' = IF ok THEN EmptyBag ELSE reconciled
         /\ iFailed' = IF ok THEN iFailed ELSE iFailed \cup {"clear"}
    /\ iPc' = "clear_records"
    /\ UNCHANGED <<loaderVars, dbRecords, rPc, rResult, rCursor, rRow, rRuns, rFailed, rPrior,
                   mainVars, fileVars, iPrior, iRuns, ingestLocals, ingestResults, recordsSeq,
                   ingested>>

\* config.DB.Exec("DELETE FROM records"): the error is not looked at.
Clear_DeleteRecords ==
    /\ iPc = "clear_records"
    /\ \E ok \in Outcomes :
         LET done == ok /\ DeleteRecordsAllowed(dbRecords, reconciled)
         IN  /\ faults' = FaultsAfter(ok)
             /\ dbRecords' = IF done THEN <<>> ELSE dbRecords
             /\ iFailed' = IF done THEN iFailed ELSE iFailed \cup {"clear"}
    /\ iPc' = "clear_sequences"
    /\ UNCHANGED <<loaderVars, reconciled, rPc, rResult, rCursor, rRow, rRuns, rFailed, rPrior,
                   mainVars, fileVars, iPrior, iRuns, ingestLocals, ingestResults, recordsSeq,
                   ingested>>

\* ALTER SEQUENCE records_id_seq RESTART WITH 1, ALTER SEQUENCE
\* reconciled_records_id_seq RESTART WITH 1 (the ids of reconciled_records are
\* not part of the model), return nil.
Clear_RestartSequences ==
    /\ iPc = "clear_sequences"
    /\ \E ok \in Outcomes :
         /\ faults' = FaultsAfter(ok)
         /\ recordsSeq' = IF ok THEN 1 ELSE recordsSeq
    /\ cResult' = Nil
    /\ iPc' = "p_open"
    /\ UNCHANGED <<loaderVars, reconVars, mainVars, fileVars, iPrior, iRuns, ingestLocals,
                   pResult, sResult, iResult, ingested, iFailed>>

\* --------------------------------------------------- ParseAndStorePayments
\* file, err := os.Open(filePath); csv.NewReader(file).
Payments_Open ==
    /\ iPc = "p_open"
    /\ IF paymentFile.exists
       THEN /\ iPc' = "p_scan"
            /\ UNCHANGED pResult
       ELSE /\ pResult' = ErrOpen
            /\ iPc' = "p_ret"
    /\ pRead' = 0
    /\ scanI' = 0
    /\ headers' = 0
    /\ UNCHANGED <<loaderVars, faults, reconVars, mainVars, fileVars, iPrior, iRuns, sRead, settlements,
                   orderTotals, recordsSeq, cResult, sResult, iResult, ingested, iFailed>>

\* One iteration of the header scan, or its end: a failed read (the end of the
\* source included) is returned, a line whose first field contains "date/time"
\* becomes headers, and headers still empty after the loop is "headers not found".
Payments_ScanHeader ==
    /\ iPc = "p_scan"
    /\ IF ScanWindowOpen(scanI)
       THEN LET line == ReadAt(paymentFile, pRead + 1)
            IN  /\ pRead' = pRead + 1
                /\ IF line.kind # "line"
                   THEN /\ pResult' = IF line.kind = "eof" THEN ErrEOF ELSE ErrRead
                        /\ iPc' = "p_ret"
                        /\ UNCHANGED <<headers, scanI>>
                   ELSE IF line.nfields > 0 /\ line.dt
                   THEN /\ headers' = line.nfields
                        /\ iPc' = "p_rows"
                        /\ UNCHANGED <<pResult, scanI>>
                   ELSE /\ scanI' = scanI + 1
                        /\ UNCHANGED <<pResult, headers, iPc>>
       ELSE /\ pResult' = ErrHeadersNotFound
            /\ iPc' = "p_ret"
            /\ UNCHANGED <<pRead, headers, scanI>>
    /\ UNCHANGED <<loaderVars, faults, reconVars, mainVars, fileVars, iPrior, iRuns, sRead, settlements,
                   orderTotals, recordsSeq, cResult, sResult, iResult, ingested, iFailed>>

\* One iteration of the row loop: a failed read (the end of the source included)
\* leaves the loop and the function returns nil; a row that is not accepted is
\* skipped; an accepted row is inserted and the error of the insert is not
\* looked at.
Payments_Row ==
    /\ iPc = "p_rows"
    /\ LET line == ReadAt(paymentFile, pRead + 1)
           payment == PaymentFromCSVRow(headers, line)
       IN  /\ pRead' = pRead + 1
           /\ IF line.kind # "line"
              THEN /\ pResult' = Nil
                   /\ iPc' = "p_ret"
                   /\ UNCHANGED <<dbRecords, recordsSeq, ingested, iFailed, faults>>
              ELSE IF ~PaymentAccepted(headers, line)
              THEN UNCHANGED <<pResult, iPc, dbRecords, recordsSeq, ingested, iFailed, faults>>
              ELSE /\ \E ok \in Outcomes :
                        /\ faults' = FaultsAfter(ok)
                        /\ dbRecords' = RecordsAfterInsert(dbRecords,
                               StoredRow(recordsSeq, "payments", payment.OrderID, payment.Date,
                                         payment.Total, payment.RawData), ok)
                        /\ IF ok /\ InsertRecordAllowed(dbRecords, recordsSeq)
                           THEN /\ ingested' = Append(ingested,
                                      <<"payments", payment.OrderID, payment.Total>>)
                                /\ UNCHANGED iFailed
                           ELSE /\ iFailed' = iFailed \cup {"payments"}
                                /\ UNCHANGED ingested
                   /\ recordsSeq' = recordsSeq + 1
                   /\ UNCHANGED <<pResult, iPc>>
    /\ UNCHANGED <<loaderVars, reconciled, rPc, rResult, rCursor, rRow, rRuns, rFailed, rPrior,
                   mainVars, fileVars, iPrior, iRuns, sRead, headers, scanI, settlements, orderTotals,
                   cResult, sResult, iResult>>

\* Mutant: the error of ParseAndStorePayments is not looked at.
PaymentsReturnedError_Ignored(res) == FALSE

\* err != nil for the value ParseAndStorePayments returned.
PaymentsReturnedError(res) == res # Nil

\* if err := utils.ParseAndStorePayments(paymentPath); err != nil { return err }
IngestAllFiles_AfterPayments ==
    /\ iPc = "p_ret"
    /\ IF PaymentsReturnedError(pResult)
       THEN /\ iResult' = pResult
            /\ iPc' = "done"
       ELSE /\ iPc' = "s_open"
            /\ UNCHANGED iResult
    /\ UNCHANGED <<loaderVars, faults, reconVars, mainVars, fileVars, iPrior, iRuns, ingestLocals, recordsSeq,
                   cResult, pResult, sResult, ingested, iFailed>>

\* ------------------------------------------------ ParseAndStoreSettlements
\* file, err := os.Open(filePath); bufio.NewScanner(file).
Settlements_Open ==
    /\ iPc = "s_open"
    /\ IF settlementFile.exists
       THEN /\ iPc' = "s_header"
            /\ UNCHANGED sResult
       ELSE /\ sResult' = ErrOpen
            /\ iPc' = "s_ret"
    /\ sRead' = 0
    /\ headers' = 0
    /\ settlements' = <<>>
    /\ UNCHANGED <<loaderVars, faults, reconVars, mainVars, fileVars, iPrior, iRuns, pRead, scanI,
                   orderTotals, recordsSeq, cResult, pResult, iResult, ingested, iFailed>>

\* if !scanner.Scan() { return fmt.Errorf("empty file") }; headers := Split(...).
Settlements_Header ==
    /\ iPc = "s_header"
    /\ LET line == ReadAt(settlementFile, 1)
       IN  /\ sRead' = 1
           /\ IF ScanFailed(line)
              THEN /\ sResult' = ErrEmptyFile
                   /\ iPc' = "s_ret"
                   /\ UNCHANGED headers
              ELSE /\ headers' = line.nfields
                   /\ iPc' = "s_lines"
                   /\ UNCHANGED sResult
    /\ UNCHANGED <<loaderVars, faults, reconVars, mainVars, fileVars, iPrior, iRuns, pRead, scanI, settlements,
                   orderTotals, recordsSeq, cResult, pResult, iResult, ingested, iFailed>>

\* One iteration of for scanner.Scan(): Scan is false at the end of the source
\* and at a line it cannot read; a line that is not accepted is skipped; then
\* orderTotals := ingest.AggregateSettlementsByOrderID(settlements).
Settlements_Line ==
    /\ iPc = "s_lines"
    /\ LET line == ReadAt(settlementFile, sRead + 1)
           settlement == SettlementFromTSVRow(headers, line)
       IN  /\ sRead' = sRead + 1
           /\ IF line.kind # "line"
              THEN /\ orderTotals' = AggregateSettlementsByOrderID(settlements)
                   /\ iPc' = "s_insert"
                   /\ UNCHANGED settlements
              ELSE IF line = EmptyLine \/ ~SettlementAccepted(headers, line)
              THEN UNCHANGED <<settlements, orderTotals, iPc>>
              ELSE /\ settlements' = Append(settlements,
                          [OrderID |-> settlement.OrderID, Amount |-> settlement.Amount,
                           TotalAmount |-> settlement.TotalAmount,
                           PostedDateTime |-> settlement.PostedDateTime,
                           RawData |-> settlement.RawData, line |-> sRead + 1])
                   /\ UNCHANGED <<orderTotals, iPc>>
    /\ UNCHANGED <<loaderVars, faults, reconVars, mainVars, fileVars, iPrior, iRuns, pRead, headers, scanI,
                   recordsSeq, cResult, pResult, sResult, iResult, ingested, iFailed>>

\* One iteration of for orderID, total := range orderTotals (a map is ranged over
\* in any order), or its end and return nil. The error of the insert is not
\* looked at.
Settlements_Insert ==
    /\ iPc = "s_insert"
    /\ IF DOMAIN orderTotals = {}
       THEN /\ sResult' = Nil
            /\ iPc' = "s_ret"
            /\ UNCHANGED <<orderTotals, dbRecords, recordsSeq, ingested, iFailed, faults>>
       ELSE /\ \E orderID \in DOMAIN orderTotals : \E ok \in Outcomes :
                 LET firstSettlement == FirstSettlement(settlements, orderID)
                 IN
                 /\ faults' = FaultsAfter(ok)
                 /\ orderTotals' = [k \in DOMAIN orderTotals \ {orderID} |-> orderTotals[k]]
                 /\ dbRecords' = RecordsAfterInsert(dbRecords,
                        StoredRow(recordsSeq, "settlements", orderID,
                                  firstSettlement.PostedDateTime, orderTotals[orderID],
                                  firstSettlement.RawData), ok)
                 /\ IF ok /\ InsertRecordAllowed(dbRecords, recordsSeq)
                    THEN /\ ingested' = Append(ingested,
                               <<"settlements", orderID, orderTotals[orderID]>>)
                         /\ UNCHANGED iFailed
                    ELSE /\ iFailed' = iFailed \cup {"settlements"}
                         /\ UNCHANGED ingested
            /\ recordsSeq' = recordsSeq + 1
            /\ UNCHANGED <<sResult, iPc>>
    /\ UNCHANGED <<loaderVars, reconciled, rPc, rResult, rCursor, rRow, rRuns, rFailed, rPrior,
                   mainVars, fileVars, iPrior, iRuns, pRead, sRead, headers, scanI, settlements,
                   cResult, pResult, iResult>>

\* return utils.ParseAndStoreSettlements(settlementPath)
IngestAllFiles_AfterSettlements ==
    /\ iPc = "s_ret"
    /\ iResult' = sResult
    /\ iPc' = "done"
    /\ UNCHANGED <<loaderVars, faults, reconVars, mainVars, fileVars, iPrior, iRuns, ingestLocals, recordsSeq,
                   cResult, pResult, sResult, ingested, iFailed>>

\* ------------------------------------------------------------- SpecIngest
\* SpecIngest: IngestAllFiles called up to MaxRuns times on one pair of sources.
\* Either the payment source ranges over every file of 0, 19 or 20 leading
\* lines, a header or none, and at most MaxLines lines, or the settlement source
\* ranges over the empty file and every file of a header and at most MaxLines
\* lines.
PaymentHeader == Line(TRUE, 3, "order id", "", "total")
SettlementHeader == Line(FALSE, 3, "order-id", "amount", "total-amount")

PaymentItems ==
    { Line(FALSE, 3, "ORD001", "", "100.00"),
      Line(FALSE, 3, "ORD002", "", "150.00"),
      Line(FALSE, 3, "ORD001", "", "0.00"),
      Line(FALSE, 3, " ", "", "100.00"),
      Line(FALSE, 2, "ORD001", "", "100.00"),
      Unreadable }

SettlementItems ==
    { Dated(Line(FALSE, 3, "ORD001", "100.00", "150.00"), "2024-01-01 10:00:00 UTC"),
      Dated(Line(FALSE, 3, "ORD001", "45.00", "150.00"), "2024-01-02 10:00:00"),
      Line(FALSE, 3, "ORD002", "145.00", "145.00"),
      Line(FALSE, 3, " ", "100.00", "100.00"),
      Line(FALSE, 2, "ORD001", "100.00", "100.00"),
      EmptyLine,
      Unreadable }

LeadingLines == {0, 19, 20}

PaymentFiles ==
    {File(j, h \o r) : j \in LeadingLines, h \in {<<>>, <<PaymentHeader>>},
                       r \in SeqsUpTo(PaymentItems, MaxLines)}

SettlementFiles ==
    {File(0, r) : r \in {<<>>} \cup {<<SettlementHeader>> \o t : t \in SeqsUpTo(SettlementItems, MaxLines)}}

SomePaymentFile == File(0, <<PaymentHeader, Line(FALSE, 3, "ORD001", "", "100.00")>>)
SomeSettlementFile == File(0, <<SettlementHeader, Line(FALSE, 3, "ORD001", "100.00", "145.00")>>)

InitIngest ==
    /\ InitLoaderIdle
    /\ InitReconIdle
    /\ InitPipeLocals
    /\ faults = 0
    /\ \/ paymentFile \in PaymentFiles \cup {NoFile} /\ settlementFile = SomeSettlementFile
       \/ paymentFile = SomePaymentFile /\ settlementFile \in SettlementFiles \cup {NoFile}

NextIngest ==
    \/ IngestAllFiles_Call
    \/ Clear_DeleteReconciled
    \/ Clear_DeleteRecords
    \/ Clear_RestartSequences
    \/ Payments_Open
    \/ Payments_ScanHeader
    \/ Payments_Row
    \/ IngestAllFiles_AfterPayments
    \/ Settlements_Open
    \/ Settlements_Header
    \/ Settlements_Line
    \/ Settlements_Insert
    \/ IngestAllFiles_AfterSettlements

SpecIngest == InitIngest /\ [][NextIngest]_vars

\* ==================================================================== main
\* views.GenerateCSVReport: SELECT p.order_id, p.total_amount, s.total_amount,
\* r.amount_difference FROM reconciled_records r JOIN records p ON
\* r.payments_record_id = p.id JOIN records s ON r.settlements_record_id = s.id.
ReportJoin(rec, tbl) ==
    {<<r, p, s>> \in BagToSet(rec) \X (DOMAIN tbl) \X (DOMAIN tbl) :
        tbl[p].id = r.payments_record_id /\ tbl[s].id = r.settlements_record_id}

\* One data row of the report: status is "reconciled" when the difference is 0.
ReportLine(r, p, s) ==
    [order_id |-> p.order_id,
     status |-> IF r.amount_difference # 0 THEN "unreconciled" ELSE "reconciled",
     payments_total |-> p.total_amount,
     settlements_total |-> s.total_amount,
     difference |-> r.amount_difference]

RECURSIVE CopiesOfAll(_, _)
CopiesOfAll(rs, rec) ==
    IF rs = {} THEN 0
    ELSE LET r == CHOOSE x \in rs : TRUE
         IN  CopiesIn(r, rec) + CopiesOfAll(rs \ {r}, rec)

\* The data rows GenerateCSVReport writes, as a bag.
ReportRows(rec, tbl) ==
    LET joined == ReportJoin(rec, tbl)
        lineOf(j) == ReportLine(j[1], tbl[j[2]], tbl[j[3]])
    IN  [l \in {lineOf(j) : j \in joined} |->
            CopiesOfAll({j[1] : j \in {x \in joined : lineOf(x) = l}}, rec)]

\* Mutant: main goes on when IngestAllFiles returned an error.
MainAfterIngest_IgnoreError(res) == "call_reconcile"

\* if err := controllers.IngestAllFiles(...); err != nil { log.Fatal(err) }
MainAfterIngest(res) == IF res # Nil THEN "fatal" ELSE "call_reconcile"

\* if err := controllers.RunReconciliation(); err != nil { log.Fatal(err) }
MainAfterReconciliation(res) == IF res # Nil THEN "fatal" ELSE "report"

\* A run of the program: config.Connect() and config.RunMigrations() succeed or
\* the run ends in log.Fatal; then IngestAllFiles is called. The tables and the
\* sequence live in the store and outlast the run.
Main_Start ==
    /\ mPc \in {"idle", "done", "fatal"}
    /\ iPc \in {"idle", "done"}
    /\ iRuns < MaxRuns
    /\ rPc' = "idle"
    /\ rResult' = NotReturned
    /\ rCursor' = {}
    /\ rRow' = <<>>
    /\ rFailed' = FALSE
    /\ report' = NoReport
    /\ \E ok \in Outcomes :
         /\ faults' = FaultsAfter(ok)
         /\ IF ok
            THEN /\ mPc' = "ingest"
                 /\ IngestAllFiles_Enter
            ELSE /\ mPc' = "fatal"
                 /\ iRuns' = iRuns + 1
                 /\ iPc' = "idle"
                 /\ cResult' = NotReturned
                 /\ pResult' = NotReturned
                 /\ sResult' = NotReturned
                 /\ iResult' = NotReturned
                 /\ ingested' = <<>>
                 /\ iFailed' = {}
                 /\ UNCHANGED <<ingestLocals, iPrior>>
    /\ UNCHANGED <<loaderVars, dbRecords, reconciled, rRuns, rPrior, fileVars, recordsSeq>>

\* IngestAllFiles has returned.
Main_AfterIngest ==
    /\ mPc = "ingest"
    /\ iPc = "done"
    /\ mPc' = MainAfterIngest(iResult)
    /\ UNCHANGED <<loaderVars, faults, reconVars, report, iPc, iRuns, fileVars, iPrior, ingestLocals,
                   recordsSeq, ingestResults, ingested, iFailed>>

\* main calls controllers.RunReconciliation().
Main_RunReconciliation ==
    /\ mPc = "call_reconcile"
    /\ mPc' = "reconcile"
    /\ rRuns' = rRuns + 1
    /\ rPc' = "delete"
    /\ rResult' = NotReturned
    /\ rFailed' = FALSE
    /\ rPrior' = reconciled
    /\ UNCHANGED <<loaderVars, faults, dbRecords, reconciled, rCursor, rRow, report, iPc, iRuns,
                   fileVars, iPrior, ingestLocals, recordsSeq, ingestResults, ingested, iFailed>>

\* RunReconciliation has returned.
Main_AfterReconciliation ==
    /\ mPc = "reconcile"
    /\ rPc = "done"
    /\ mPc' = MainAfterReconciliation(rResult)
    /\ UNCHANGED <<loaderVars, faults, reconVars, report, iPc, iRuns, fileVars, iPrior, ingestLocals,
                   recordsSeq, ingestResults, ingested, iFailed>>

\* if err := views.GenerateCSVReport(); err != nil { log.Fatal(err) }. When the
\* query or os.Create fails nothing is written. (A failure of rows.Scan in the
\* middle of the rows is left out.)
Main_GenerateCSVReport ==
    /\ mPc = "report"
    /\ \E ok \in Outcomes :
         /\ faults' = FaultsAfter(ok)
         /\ IF ok
            THEN /\ report' = [written |-> TRUE, rows |-> ReportRows(reconciled, dbRecords)]
                 /\ mPc' = "done"
            ELSE /\ mPc' = "fatal"
                 /\ UNCHANGED report
    /\ UNCHANGED <<loaderVars, reconVars, iPc, iRuns, fileVars, iPrior, ingestLocals, recordsSeq,
                   ingestResults, ingested, iFailed>>

\* ------------------------------------------------------------ SpecPipeline
\* SpecPipeline: the program run up to MaxRuns times on one pair of sources and
\* one store.
PipelinePaymentFiles ==
    { File(0, <<PaymentHeader, Line(FALSE, 3, "ORD001", "", "100.00"),
                Line(FALSE, 3, "ORD002", "", "150.00")>>),
      File(0, <<PaymentHeader, Line(FALSE, 3, "ORD001", "", "0.00"),
                Line(FALSE, 3, "ORD002", "", "150.00")>>),
      File(20, <<PaymentHeader, Line(FALSE, 3, "ORD001", "", "100.00")>>) }

PipelineSettlementFiles ==
    { File(0, <<SettlementHeader, Line(FALSE, 3, "ORD001", "100.00", "145.00"),
                Line(FALSE, 3, "ORD001", "45.00", "145.00")>>),
      File(0, <<SettlementHeader, Line(FALSE, 3, "ORD001", "100.00", "145.00"),
                Line(FALSE, 3, "ORD002", "145.00", "145.00")>>),
      File(0, <<>>) }

InitPipeline ==
    /\ InitLoaderIdle
    /\ InitReconIdle
    /\ InitPipeLocals
    /\ faults = 0
    /\ paymentFile \in PipelinePaymentFiles
    /\ settlementFile \in PipelineSettlementFiles

NextPipeline ==
    \/ Main_Start
    \/ Clear_DeleteReconciled
    \/ Clear_DeleteRecords
    \/ Clear_RestartSequences
    \/ Payments_Open
    \/ Payments_ScanHeader
    \/ Payments_Row
    \/ IngestAllFiles_AfterPayments
    \/ Settlements_Open
    \/ Settlements_Header
    \/ Settlements_Line
    \/ Settlements_Insert
    \/ IngestAllFiles_AfterSettlements
    \/ Main_AfterIngest
    \/ Main_RunReconciliation
    \/ RunReconciliation_Delete
    \/ RunReconciliation_Query
    \/ RunReconciliation_Next
    \/ RunReconciliation_Insert
    \/ Main_AfterReconciliation
    \/ Main_GenerateCSVReport

SpecPipeline == InitPipeline /\ [][NextPipeline]_vars

\* ================================================== properties of the tables
\* The result set a pass over the current records table produces.
FullResult == SetToBag({ReconciledRow(j) : j \in JoinRows(dbRecords)})

\* C11: in every reachable state, each reconciled_records row references an
\* existing payments-sourced record and an existing settlements-sourced record
\* that share the same order_id, across any sequence of ClearExistingData,
\* ingestion and RunReconciliation.
C11_ResultRowsReferenceMatchedRecords ==
    \A r \in BagToSet(reconciled) :
        \E p, s \in DOMAIN dbRecords :
            /\ dbRecords[p].id = r.payments_record_id
            /\ dbRecords[s].id = r.settlements_record_id
            /\ dbRecords[p].source = "payments"
            /\ dbRecords[s].source = "settlements"
            /\ dbRecords[p].order_id = dbRecords[s].order_id

\* A second run has gone through ClearExistingData with a failed DELETE while
\* result rows of the first run are still there.
C11_Witness ==
    /\ iRuns >= 2
    /\ cResult = Nil
    /\ "clear" \in iFailed
    /\ reconciled # EmptyBag
    /\ dbRecords # <<>>

\* C12: RunReconciliation replaces the prior reconciliation output atomically:
\* reconciled_records is always either the complete prior result set or the
\* complete new result set, and a failure during the run leaves the prior
\* result set intact.
C12_ReplacedAtomically ==
    /\ reconciled = rPrior \/ reconciled = FullResult
    /\ (rPc = "done" /\ rFailed) => reconciled = rPrior

\* C13: if the insert of a result row fails, RunReconciliation aborts the pass:
\* it inserts no further result rows and returns a non-nil error.
C13_InsertFailureAborts ==
    [][(rPc = "insert" /\ rPc' # "insert" /\ reconciled' = reconciled)
          => (rPc' = "done" /\ rResult' # Nil /\ rResult' # NotReturned)]_vars

\* C14: RunReconciliation is a full rebuild: after a run that returned nil the
\* result set is the one the current records table determines, however many
\* runs came before, with no duplicated pair.
C14_FullRebuild ==
    (rPc = "done" /\ rResult = Nil) =>
        /\ BagToSet(reconciled) = BagToSet(FullResult)
        /\ \A r \in BagToSet(reconciled) : CopiesIn(r, reconciled) = 1

\* Without a failed store call in any run so far, the run is a full rebuild.
FullRebuildWhenNoStoreCallFailed ==
    (rPc = "done" /\ rResult = Nil /\ faults = 0) => reconciled = FullResult

\* =============================================== properties of the pipeline
IsError(res) == res # Nil /\ res # NotReturned

\* C15: in every run of the pipeline, RunReconciliation starts only after both
\* the payment ingestion and the settlement ingestion have returned without an
\* error; if either ingestion returns an error, reconciliation is never started.
C15_ReconciliationAfterIngestion ==
    /\ (rPc # "idle" \/ mPc \in {"call_reconcile", "reconcile", "report", "done"}) =>
          (cResult = Nil /\ pResult = Nil /\ sResult = Nil /\ iResult = Nil)
    /\ (IsError(pResult) \/ IsError(sResult)) =>
          (rPc = "idle" /\ mPc \in {"ingest", "fatal"})

\* RunReconciliation is inserting result rows in a run whose ingestions both
\* returned nil.
C15_Witness ==
    /\ mPc = "reconcile"
    /\ rPc = "insert"
    /\ pResult = Nil
    /\ sResult = Nil

\* C16: no partial report on failure: GenerateCSVReport writes the report only
\* if no store delete or insert failed during clearing, the two ingestions and
\* the reconciliation of the run.
C16_NoReportAfterStoreFailure ==
    report.written => (iFailed = {} /\ ~rFailed)

\* C17: a store error during ingestion is surfaced: ClearExistingData,
\* ParseAndStorePayments and ParseAndStoreSettlements do not return nil when a
\* delete or an insert of theirs failed.
C17_StoreErrorSurfaced ==
    /\ cResult = Nil => "clear" \notin iFailed
    /\ pResult = Nil => "payments" \notin iFailed
    /\ sResult = Nil => "settlements" \notin iFailed

\* ------------------------------------------------ properties of the parsers
\* The number of lines of a source.
FileLen(f) == f.junk + Len(f.rest)

\* The position of the header of a payment source: the first of its first 20
\* lines whose first field contains "date/time", 0 if there is none or if the
\* source ends or cannot be read before it.
RECURSIVE HeaderFrom(_, _)
HeaderFrom(f, n) ==
    IF n > 20 THEN 0
    ELSE LET line == ReadAt(f, n)
         IN  IF line.kind # "line" THEN 0
             ELSE IF line.dt THEN n
             ELSE HeaderFrom(f, n + 1)

HeaderOf(f) == HeaderFrom(f, 1)

\* The lines of a source after position h, in order.
RowsAfter(f, h) ==
    LET n == FileLen(f) - h
    IN  SelectSeq([i \in 1 .. (IF n > 0 THEN n ELSE 0) |-> ReadAt(f, h + i)],
                  LAMBDA line : line.kind = "line")

\* The rows of a payment source the acceptance rule lets through: at least as
\* many fields as the header, a non-empty order key, a non-zero total.
Qualifies(f, line) ==
    /\ line.nfields >= ReadAt(f, HeaderOf(f)).nfields
    /\ line.order \notin {"", " "}
    /\ line.total \notin {"", "0.00"}

ToAmount(text) ==
    CASE text = "100.00" -> 10000
      [] text = "150.00" -> 15000
      [] text = "145.00" -> 14500
      [] text = "45.00" -> 4500
      [] OTHER -> 0

RECURSIVE QualifyingRows(_, _)
QualifyingRows(f, rows) ==
    IF rows = <<>> THEN <<>>
    ELSE (IF Qualifies(f, Head(rows))
          THEN <<<<"payments", Head(rows).order, ToAmount(Head(rows).total)>>>>
          ELSE <<>>) \o QualifyingRows(f, Tail(rows))

PersistedPayments == SelectSeq(ingested, LAMBDA row : row[1] = "payments")

\* C18: a payment row is persisted as a payments-sourced record if and only if
\* it follows the header row, has at least as many fields as the header, a
\* non-empty order key and a non-zero total; a payment with total 0 produces no
\* records row.
C18_PersistedIffQualifies ==
    pResult = Nil =>
        /\ PersistedPayments = QualifyingRows(paymentFile, RowsAfter(paymentFile, HeaderOf(paymentFile)))
        /\ \A i \in DOMAIN dbRecords :
              dbRecords[i].source = "payments" => dbRecords[i].total_amount # 0

\* With no failed call and no unreadable row, C18's statement holds.
PersistedIffQualifiesWhenNothingFails ==
    (faults = 0 /\ \A n \in 1 .. FileLen(paymentFile) : ReadAt(paymentFile, n).kind = "line")
        => C18_PersistedIffQualifies

\* None of the first 20 lines qualifies as the header, or the source ends first.
NoHeaderInWindow(f) ==
    /\ f.exists
    /\ \A n \in 1 .. 20 : ReadAt(f, n).kind \in {"line", "eof"} /\ ~ReadAt(f, n).dt

\* C19: payment header detection is bounded to the first 20 lines: when none of
\* them has "date/time" in its first field, or the source ends first,
\* ParseAndStorePayments fails with the header-not-found error and persists no
\* payments-sourced record.
C19_HeaderNotFoundError ==
    (IsError(pResult) /\ NoHeaderInWindow(paymentFile)) =>
        (pResult = ErrHeadersNotFound /\ PersistedPayments = <<>>)

\* What the header scan does: the header is the first of the first 20 lines
\* whose first field contains "date/time". Without one, ParseAndStorePayments
\* persists no payments-sourced record and fails: with the header-not-found
\* error when 20 lines were read, with the reader's error (end of file included)
\* when the source ends or cannot be read before that.
HeaderScanBounded ==
    LET f == paymentFile
        h == HeaderOf(f)
    IN  /\ iPc = "p_rows" =>
              (h # 0 /\ pRead >= h /\ headers = ReadAt(f, h).nfields)
        /\ (pResult # NotReturned /\ f.exists) =>
              IF h # 0 THEN pResult = Nil
              ELSE /\ PersistedPayments = <<>>
                   /\ pResult =
                         IF \A n \in 1 .. 20 : ReadAt(f, n).kind = "line"
                         THEN ErrHeadersNotFound
                         ELSE IF \E n \in 1 .. 20 :
                                    /\ ReadAt(f, n).kind = "error"
                                    /\ \A m \in 1 .. n - 1 : ReadAt(f, m).kind = "line"
                         THEN ErrRead
                         ELSE ErrEOF

\* C20: per-row problems never stop an ingestion: once the header is found the
\* ingestor returns nil, and every row of the source after the header has then
\* been read, whatever rows came before it.
C20_LaterRowsProcessed ==
    /\ (pResult # NotReturned /\ paymentFile.exists /\ HeaderOf(paymentFile) # 0) =>
          /\ pResult = Nil
          /\ \A n \in 1 .. FileLen(paymentFile) :
                ReadAt(paymentFile, n).kind = "line" => n <= pRead
    /\ (sResult # NotReturned /\ settlementFile.exists /\ ReadAt(settlementFile, 1).kind = "line") =>
          /\ sResult = Nil
          /\ \A n \in 1 .. FileLen(settlementFile) :
                ReadAt(settlementFile, n).kind = "line" => n <= sRead

\* With no unreadable row in either source, C20's statement holds.
LaterRowsProcessedWhenAllReadable ==
    (/\ \A n \in 1 .. FileLen(paymentFile) : ReadAt(paymentFile, n).kind = "line"
     /\ \A n \in 1 .. FileLen(settlementFile) : ReadAt(settlementFile, n).kind = "line")
        => C20_LaterRowsProcessed

\* ========================================== AggregateSettlementsByOrderID
\* SpecAggregate applies AggregateSettlementsByOrderID to every sequence of at
\* most MaxItems line items, the order key of which may be empty and the amount
\* of which differs from its total_amount.
AggregateKeys == Orders \cup {""}
AggregateAmounts == {4500, 10000}

AggregateItems ==
    {[OrderID |-> k, Amount |-> a, TotalAmount |-> 14500, PostedDateTime |-> ZeroTime,
      RawData |-> NoRawData, line |-> 0] : k \in AggregateKeys, a \in AggregateAmounts}

InitAggregate ==
    /\ InitLoaderIdle
    /\ InitReconIdle
    /\ InitPipeIdle

AggregateSettlementsByOrderID_Call ==
    /\ iPc = "idle"
    /\ \E ss \in SeqsUpTo(AggregateItems, MaxItems) :
         /\ settlements' = ss
         /\ orderTotals' = AggregateSettlementsByOrderID(ss)
    /\ iPc' = "aggregated"
    /\ UNCHANGED <<loaderVars, reconVars, faults, mainVars, fileVars, iRuns, pRead, sRead, headers,
                   scanI, recordsSeq, ingestResults, ingested, iFailed, iPrior>>

NextAggregate == AggregateSettlementsByOrderID_Call

SpecAggregate == InitAggregate /\ [][NextAggregate]_vars

\* ================================= BatchInserter.BatchInsertRecords, fair
\* SpecAdhocFair: one call of BatchInserter.BatchInsertRecords in which a
\* goroutine that can take a step is eventually scheduled and every store call
\* returns.
InitAdhoc == Init /\ variant = "adhoc"

NextAdhoc ==
    \/ BatchInsertRecords_Call
    \/ StartWorker
    \/ Wait
    \/ CheckErrors
    \/ \E w \in Workers : WorkerReceive(w)
    \/ \E w \in Workers : WorkerSendError(w)
    \/ \E w \in Workers : BI_insertBatch(w)

SpecAdhocFair == InitAdhoc /\ [][NextAdhoc]_vars /\ WF_vars(NextAdhoc)

\* ============================================== properties of the ingestion
\* The sum of the amount fields of the items of ss whose order key is k.
RECURSIVE SumAmounts(_, _)
SumAmounts(ss, k) ==
    IF ss = <<>> THEN 0
    ELSE (IF Head(ss).OrderID = k THEN Head(ss).Amount ELSE 0) + SumAmounts(Tail(ss), k)

KeysOf(ss) == {ss[i].OrderID : i \in DOMAIN ss}

\* C21: for every sequence of settlement line items, the map that
\* AggregateSettlementsByOrderID returns has exactly the non-empty order keys of
\* the items as its keys (the empty key is never one), and maps each to the sum
\* of the amount fields, not of the total_amount fields, of the items with that key.
C21_AggregateSumsAmountByKey ==
    iPc = "aggregated" =>
        /\ DOMAIN orderTotals = KeysOf(settlements) \ {""}
        /\ "" \notin DOMAIN orderTotals
        /\ \A k \in DOMAIN orderTotals : orderTotals[k] = SumAmounts(settlements, k)

\* C21 witness: an input in which one key has two items, another item has the
\* empty key, and the amounts summed differ from the total_amount fields.
C21_Witness ==
    /\ iPc = "aggregated"
    /\ \E i, j, e \in DOMAIN settlements :
         /\ i # j
         /\ settlements[i].OrderID = settlements[j].OrderID
         /\ settlements[i].OrderID # ""
         /\ settlements[e].OrderID = ""
         /\ orderTotals[settlements[i].OrderID] =
                settlements[i].Amount + settlements[j].Amount
         /\ orderTotals[settlements[i].OrderID] # settlements[i].TotalAmount

\* The line items of a settlement source the acceptance rule lets through: the
\* lines after the first that have at least as many fields as the first line and
\* a non-empty order key.
ValidSettlementLines(f) ==
    SelectSeq(RowsAfter(f, 1),
              LAMBDA line : line.nfields >= ReadAt(f, 1).nfields /\ line.order \notin {"", " "})

SettlementKeys(f) == {ValidSettlementLines(f)[i].order : i \in DOMAIN ValidSettlementLines(f)}

RECURSIVE SumOfLines(_, _)
SumOfLines(lines, k) ==
    IF lines = <<>> THEN 0
    ELSE (IF Head(lines).order = k THEN ToAmount(Head(lines).amount) ELSE 0)
         + SumOfLines(Tail(lines), k)

SettlementRows(tbl) == {i \in DOMAIN tbl : tbl[i].source = "settlements"}

\* Every row of records was inserted by the current call of IngestAllFiles.
StoreWasCleared == Len(dbRecords) = Len(ingested)

AllReadable(f) == \A n \in 1 .. FileLen(f) : ReadAt(f, n).kind = "line"

\* C22: after a settlement ingestion from a cleared store, records holds exactly
\* one settlements-sourced row for every distinct non-empty order key among the
\* valid line items of the source, no other settlements-sourced row, and the
\* total_amount of each is the sum of the amounts of the items with its key.
C22_OneRowPerOrderKey ==
    (iPc \in {"s_ret", "done"} /\ sResult = Nil /\ StoreWasCleared) =>
        LET lines == ValidSettlementLines(settlementFile)
        IN  /\ \A k \in SettlementKeys(settlementFile) :
                  Cardinality({i \in SettlementRows(dbRecords) : dbRecords[i].order_id = k}) = 1
            /\ \A i \in SettlementRows(dbRecords) :
                  /\ dbRecords[i].order_id \in SettlementKeys(settlementFile)
                  /\ dbRecords[i].total_amount = SumOfLines(lines, dbRecords[i].order_id)

\* With no failed call and no unreadable line, C22's statement holds.
OneRowPerOrderKeyWhenNothingFails ==
    (faults = 0 /\ AllReadable(settlementFile)) => C22_OneRowPerOrderKey

\* The position of the first line after the header that the scanner cannot
\* deliver (one past the last line when there is none).
RECURSIVE ScanEndFrom(_, _)
ScanEndFrom(f, n) ==
    IF n > FileLen(f) \/ ReadAt(f, n).kind # "line" THEN n ELSE ScanEndFrom(f, n + 1)

\* The valid line items the loop of ParseAndStoreSettlements reads.
ScannedSettlementLines(f) ==
    LET end == ScanEndFrom(f, 2)
    IN  SelectSeq([i \in 1 .. (IF end > 2 THEN end - 2 ELSE 0) |-> ReadAt(f, i + 1)],
                  LAMBDA line : line.nfields >= ReadAt(f, 1).nfields
                                /\ line.order \notin {"", " "})

\* The valid line items of the source with order key k, in input order.
LinesOfKey(f, k) == SelectSeq(ValidSettlementLines(f), LAMBDA line : line.order = k)

\* C23: the date and the raw payload of every persisted settlements-sourced
\* record are those of the first valid line item with its order key in input
\* order, never those of a later item, and its total_amount is the sum of the
\* amounts of the items read, not a field of the representative.
C23_RepresentativeIsFirstItem ==
    \A i \in SettlementRows(dbRecords) :
        LET row == dbRecords[i]
            items == LinesOfKey(settlementFile, row.order_id)
        IN  /\ items # <<>>
            /\ row.raw_data = [order |-> items[1].order, amount |-> items[1].amount,
                               total |-> items[1].total, date |-> items[1].date]
            /\ row.date = ParseDate(items[1].date)
            /\ row.total_amount =
                  SumOfLines(ScannedSettlementLines(settlementFile), row.order_id)

\* C23 witness: a persisted settlements-sourced record whose order key has two
\* valid line items that differ in date and payload, and whose total_amount is
\* neither the amount nor the total_amount of the first.
C23_Witness ==
    \E i \in SettlementRows(dbRecords) :
        LET items == LinesOfKey(settlementFile, dbRecords[i].order_id)
        IN  /\ Len(items) >= 2
            /\ items[1].date # items[2].date
            /\ items[1].amount # items[2].amount
            /\ dbRecords[i].total_amount # ToAmount(items[1].amount)
            /\ dbRecords[i].total_amount # ToAmount(items[1].total)

\* C24: IngestAllFiles run twice in a row on the same two sources leaves records
\* with the same multiset of (source, order_id, total_amount, raw_data) rows
\* after the second run as after the first, every row being one the second run
\* inserted (none left over from the first).
C24_IdempotentRestart ==
    (iPc = "done" /\ iRuns >= 2) =>
        /\ StoredContent(dbRecords) = iPrior
        /\ StoreWasCleared

\* With no failed call, C24's statement holds.
IdempotentRestartWhenNothingFails == faults = 0 => C24_IdempotentRestart

\* The settlement source can be opened and has no first line.
EmptySource(f) == f.exists /\ FileLen(f) = 0

\* C25: when the settlement source has no first line, no step of
\* ParseAndStoreSettlements writes to records, and the function returns the
\* empty-file error.
C25_EmptySettlementFileFails ==
    [][(EmptySource(settlementFile) /\ iPc \in {"s_open", "s_header", "s_lines", "s_insert"})
          => /\ dbRecords' = dbRecords
             /\ iPc' = "s_ret" => sResult' = ErrEmptyFile]_vars

\* C25 witness: ParseAndStoreSettlements has returned the empty-file error on a
\* source without a first line, after payments were stored.
C25_Witness ==
    /\ EmptySource(settlementFile)
    /\ iPc = "s_ret"
    /\ sResult = ErrEmptyFile
    /\ SettlementRows(dbRecords) = {}
    /\ dbRecords # <<>>

\* The tags of table records.
SourceTags == {"payments", "settlements"}

\* The source and order_id columns of the rows the loaders have committed.
LoadedRows ==
    {[source |-> BatchRecordFields(store[i].val).Source,
      order_id |-> BatchRecordFields(store[i].val).OrderID] : i \in DOMAIN store}

\* C26: in every reachable state every row of records created by a loader or by
\* an ingestor has source 'payments' or 'settlements' and a non-empty order_id.
C26_SourceAndOrderKeyValid ==
    /\ \A row \in LoadedRows : row.source \in SourceTags /\ row.order_id # ""
    /\ \A i \in DOMAIN dbRecords :
          dbRecords[i].source \in SourceTags /\ dbRecords[i].order_id # ""

\* The rows the ingestors create satisfy C26's statement.
IngestedRowsValid ==
    \A i \in DOMAIN dbRecords :
        dbRecords[i].source \in SourceTags /\ dbRecords[i].order_id # ""

\* Whether table t is table s with rows added at its end.
Extends(s, t) == Len(s) <= Len(t) /\ \A i \in DOMAIN s : t[i] = s[i]

LoadsOnlyAppend == [][Extends(store, store')]_vars

PersistedSettlements == SelectSeq(ingested, LAMBDA row : row[1] = "settlements")

\* C28: the records the ingestors accept become visible in the store only as
\* whole batches committed in one transaction each (a source of fewer than
\* DefaultBatchSize accepted records is one batch): while an ingestor is still
\* working through its rows, no row of the current call is visible.
C28_VisibleOnlyAsWholeBatches ==
    /\ iPc = "p_rows" => PersistedPayments = <<>>
    /\ (iPc = "s_insert" /\ DOMAIN orderTotals # {}) => PersistedSettlements = <<>>

\* ================================================ properties of the loaders
\* C29: when BatchInsertRecords (of BatchInserter or PreparedBatchInserter)
\* returns nil, every input record is in the store exactly once, and every batch
\* was taken by exactly one worker whose insertBatch returned nil, whatever the
\* batchSize, the number of workers and their interleaving.
C29_NilMeansEveryRecordPersistedOnce ==
    (IsLoader /\ result = Nil) =>
        /\ BagOfSeq(store) = BagOfSeq(records)
        /\ \A b \in DOMAIN batches : Len(takenBy[b]) = 1 /\ ret[b] = Nil

\* C29 witness: a call that returned nil after two workers each committed a
\* batch of a three-record input.
C29_Witness ==
    /\ IsLoader
    /\ result = Nil
    /\ Len(records) = 3
    /\ Len(batches) >= 2
    /\ takenBy[1] # takenBy[2]
    /\ Len(store) = 3

\* C30: BatchInserter.BatchInsertRecords always terminates when every store call
\* returns: a worker that has an error to send always finds room in errorChan
\* (each worker sends at most one error and the channel holds `workers` of
\* them), no worker waits on batchChan (it is filled and closed before the
\* workers start), and the call eventually returns, for every number of batches,
\* every worker count and every pattern of batch failures.
C30_AlwaysTerminates ==
    /\ [](\A w \in Workers : wpc[w] = "send" => Len(errorChan) < ErrorChanCap(workers))
    /\ [](\A w \in Workers : wpc[w] = "recv" => mainPc \in {"spawn", "wait"})
    /\ <>(result # NotReturned)

\* C30 witness: the call has returned after every one of at least two workers
\* failed on its first batch and sent its error, with a batch left in the queue.
C30_Witness ==
    /\ variant = "adhoc"
    /\ mainPc = "done"
    /\ workers >= 2
    /\ Len(reported) = workers
    /\ batchChan # <<>>
    /\ result # Nil
    /\ result # NotReturned

\* C31: a worker whose batch fails holds that batch, reports one error and pulls
\* no further batch; a worker that has not failed leaves only when the queue is
\* empty; so at most `workers` batches fail in one call, and a batch is left in
\* the queue after the workers have exited only if every worker has failed.
C31_FailedWorkerStops ==
    IsLoader =>
        /\ Cardinality(failed) <= workers
        /\ Len(reported) <= Cardinality(failed)
        /\ \A i, j \in DOMAIN reported : i # j => reported[i] # reported[j]
        /\ \A b \in failed :
              /\ Len(takenBy[b]) = 1
              /\ cur[takenBy[b][1]] = b
              /\ wpc[takenBy[b][1]] \in {"send", "done"}
        /\ \A w \in Workers : (wpc[w] = "done" /\ cur[w] \notin failed) => batchChan = <<>>
        /\ (mainPc \in {"read", "done"} /\ batchChan # <<>>) =>
              \A w \in Workers : cur[w] \in failed

\* C31 witness: of two workers one failed on the first batch and stopped, the
\* other committed the two remaining batches, and the call has returned.
C31_Witness ==
    /\ IsLoader
    /\ mainPc = "done"
    /\ workers = 2
    /\ Len(batches) = 3
    /\ failed = {1}
    /\ reported = <<Err(1)>>
    /\ ret[2] = Nil
    /\ ret[3] = Nil
    /\ takenBy[2] = takenBy[3]
    /\ batchChan = <<>>

\* C32: the batches createBatches returns are contiguous and in input order:
\* no batch is empty, every batch but the last holds exactly batchSize records,
\* the last holds between 1 and batchSize, and the batches concatenated in
\* creation order are the input sequence itself, record for record.
C32_BatchesContiguousInOrder ==
    mainPc = "done" =>
        /\ \A i \in DOMAIN batches : Len(batches[i]) >= 1 /\ Len(batches[i]) <= batchSize
        /\ \A i \in 1 .. Len(batches) - 1 : Len(batches[i]) = batchSize
        /\ Flatten(batches) = records
        /\ records = <<>> <=> batches = <<>>

\* C32 witness: BatchInserter.createBatches cut an input of distinct neighbours
\* into at least one full batch followed by a smaller last batch.
C32_Witness ==
    /\ mainPc = "done"
    /\ variant = "adhoc"
    /\ Len(batches) >= 2
    /\ Len(batches[1]) = batchSize
    /\ Len(batches[Len(batches)]) < batchSize
    /\ records[1].val # records[Len(records)].val

\* C33: at any moment of a load of the prepared inserter the store has at most
\* `workers` open transactions: the open transactions are exactly those of the
\* workers that are inside insertBatch, one each, and a worker that is about to
\* receive its next batch, is sending its error or has exited holds none.
C33_OpenTransactionsAtMostWorkers ==
    variant = "prepared" =>
        /\ openTxns <= workers
        /\ openTxns = Cardinality({w \in Workers : txOpen[w]})
        /\ \A w \in Workers : wpc[w] \in {"idle", "recv", "insert", "send", "done"} => ~txOpen[w]

\* C33 witness: two workers are inside their transactions at the same moment,
\* one of them on a batch it received after committing an earlier one.
C33_Witness ==
    /\ variant = "prepared"
    /\ workers = 2
    /\ openTxns = 2
    /\ \A w \in Workers : txOpen[w] /\ wpc[w] = "intx"
    /\ \E b \in DOMAIN batches :
          /\ ret[b] = Nil
          /\ \E w \in Workers : takenBy[b] = <<w>> /\ cur[w] # b

\* The records of the first n batches handed to insertBatch, in order.
FirstBatches(n) == Flatten(SubSeq(batches, 1, n))

\* C34: when StreamInsertRecords has returned and no insert failed, the table
\* holds exactly the records of the channel, each once and in arrival order;
\* they were inserted in batches of exactly batchSize records followed by at
\* most one smaller, non-empty batch, and the batches are consecutive pieces of
\* the input (the reused buffer repeats and drops nothing).
C34_StreamPersistsAllInOrder ==
    (variant = "stream" /\ mainPc = "done" /\ failed = {}) =>
        /\ result = Nil
        /\ recordChan = <<>>
        /\ store = records
        /\ Flatten(batches) = records
        /\ \A b \in DOMAIN batches : ret[b] = Nil /\ Len(batches[b]) >= 1
        /\ \A b \in 1 .. Len(batches) - 1 : Len(batches[b]) = batchSize
        /\ batches # <<>> => Len(batches[Len(batches)]) <= batchSize

\* C34 witness: a stream of three records was persisted as a full batch taken
\* from the reused buffer and a smaller final batch.
C34_Witness ==
    /\ variant = "stream"
    /\ mainPc = "done"
    /\ result = Nil
    /\ Len(records) = 3
    /\ Len(batches) = 2
    /\ Len(batches[2]) < batchSize
    /\ store = records

\* C35: when an insertBatch of StreamInsertRecords has failed, the call has
\* returned that batch's error and nothing was done afterwards: the failed batch
\* is the last one handed over, every earlier batch is committed and the table
\* holds exactly those batches, no record of the failed batch is in the table,
\* and the records not yet received are still in the channel.
C35_StreamStopsAtFirstError ==
    (variant = "stream" /\ failed # {}) =>
        /\ mainPc = "done"
        /\ failed = {Len(batches)}
        /\ result = Err(Len(batches))
        /\ ret[Len(batches)] = Err(Len(batches))
        /\ \A b \in 1 .. Len(batches) - 1 : ret[b] = Nil /\ FullyPersisted(b)
        /\ store = FirstBatches(Len(batches) - 1)
        /\ PersistedOf(Len(batches)) = {}
        /\ ~txOpen[0]
        /\ recordChan = SubSeq(records, Len(Flatten(batches)) + 1, Len(records))

\* C35 witness: the second batch failed after the first was committed, with a
\* record still in the channel.
C35_Witness ==
    /\ variant = "stream"
    /\ mainPc = "done"
    /\ failed = {2}
    /\ result = Err(2)
    /\ store = batches[1]
    /\ store # <<>>
    /\ recordChan # <<>>

\* The rows of records with source tag src and order key k.
RowsOfKey(src, k) ==
    {i \in DOMAIN dbRecords : dbRecords[i].source = src /\ dbRecords[i].order_id = k}

\* The matched (payments row, settlements row) pairs of order key k.
PairsOfKey(k) == {r \in JoinRows(dbRecords) : r[2] = k}

OneRowPerPair ==
    /\ \A r \in JoinRows(dbRecords) : CopiesIn(ReconciledRow(r), reconciled) = 1
    /\ BagCardinality(reconciled) = Cardinality(JoinRows(dbRecords))
    /\ \A k \in Orders :
          Cardinality(PairsOfKey(k)) =
              Cardinality(RowsOfKey("payments", k)) * Cardinality(RowsOfKey("settlements", k))
    /\ \A r \in JoinRows(dbRecords) :
          \E p, s \in DOMAIN dbRecords :
              /\ dbRecords[p].id = r[1]
              /\ dbRecords[s].id = r[4]
              /\ ReconciledRow(r).amount_difference =
                     dbRecords[p].total_amount - dbRecords[s].total_amount

\* C36 (as claimed): when RunReconciliation has returned nil, reconciled_records
\* holds exactly one row per matched (payments row, settlements row) pair, so
\* p*s rows for an order key with p payments rows and s settlements rows, each
\* with amount_difference = payment total - settlement total.
C36_OneRowPerMatchedPair ==
    (rPc = "done" /\ rResult = Nil) => OneRowPerPair

\* Without a failed store call in the run, the result is one row per pair.
OneRowPerPairWhenNoStoreCallFailed ==
    (rPc = "done" /\ rResult = Nil /\ ~rFailed) => OneRowPerPair

\* A completed run without a failed store call on an order key with two payments
\* rows and one settlements row, the totals of a pair differing in either sign.
OneRowPerPairCase ==
    /\ rPc = "done"
    /\ rResult = Nil
    /\ ~rFailed
    /\ \E k \in Orders : Cardinality(PairsOfKey(k)) = 2
    /\ \E r \in BagToSet(reconciled) : r.amount_difference < 0

\* The positions of IngestAllFiles inside each of its three calls.
ClearPhase == {"clear_reconciled", "clear_records", "clear_sequences"}
PaymentPhase == {"p_open", "p_scan", "p_rows", "p_ret"}
SettlementPhase == {"s_open", "s_header", "s_lines", "aggregated", "s_insert", "s_ret"}

\* A row was appended to records with source tag src.
RecordAdded(src) ==
    /\ Len(dbRecords') > Len(dbRecords)
    /\ dbRecords'[Len(dbRecords')].source = src

\* Every id a result row refers to is the id of a stored record.
NoDanglingReference ==
    \A r \in BagToSet(reconciled) :
        /\ \E i \in DOMAIN dbRecords : dbRecords[i].id = r.payments_record_id
        /\ \E i \in DOMAIN dbRecords : dbRecords[i].id = r.settlements_record_id

\* C37: in every behaviour of the pipeline, ClearExistingData reaches the DELETE
\* of records only from the DELETE of reconciled_records, rows of records are
\* removed only there and only while reconciled_records is empty, and no result
\* row ever refers to a record that is not stored; IngestAllFiles ingests
\* payments only after ClearExistingData has returned in the same call, and
\* ingests settlements only after ParseAndStorePayments has returned nil.
C37_ClearBeforePaymentsBeforeSettlements ==
    /\ []NoDanglingReference
    /\ [](iPc \in PaymentPhase => (cResult = Nil /\ sResult = NotReturned))
    /\ [](iPc \in SettlementPhase => (cResult = Nil /\ pResult = Nil))
    /\ [][/\ (iPc' = "clear_records" /\ iPc # "clear_records") => iPc = "clear_reconciled"
          /\ (iPc' \in PaymentPhase /\ iPc \notin PaymentPhase) => iPc = "clear_sequences"
          /\ Len(dbRecords') < Len(dbRecords) =>
                (iPc = "clear_records" /\ reconciled = EmptyBag /\ reconciled' = EmptyBag)
          /\ RecordAdded("payments") => (iPc \in PaymentPhase /\ cResult = Nil)
          /\ RecordAdded("settlements") => (iPc \in SettlementPhase /\ pResult = Nil)]_vars

\* C37 witness: the second run of the pipeline, started on a store that held a
\* matched pair and (no call having failed in the first run) its result row, has
\* cleared both tables, ingested payments and then settlements.
C37_Witness ==
    /\ iRuns = 2
    /\ iPc = "s_ret"
    /\ cResult = Nil
    /\ pResult = Nil
    /\ sResult = Nil
    /\ iFailed = {}
    /\ rRuns = 1
    /\ faults = 0
    /\ reconciled = EmptyBag
    /\ \E a, b \in BagToSet(iPrior) :
          a.source = "payments" /\ b.source = "settlements" /\ a.order_id = b.order_id
    /\ \E i, j \in DOMAIN dbRecords :
          dbRecords[i].source = "payments" /\ dbRecords[j].source = "settlements"

====
